---- MODULE Spec2Model ----
(***************************************************************************)
(* A model of the comit-rs / nectar swap engine:                           *)
(*   - the Maker state machine of src/src/maker.rs (MakerSpec);            *)
(*   - the hbit -> herc20 swap protocols of Alice and Bob from             *)
(*     src/nectar/src/swap/comit/hbit_herc20.rs run against each other on  *)
(*     two modelled chains (SwapSpec);                                     *)
(*   - the sending operations of the Ethereum Wallet of                    *)
(*     src/src/ethereum/wallet.rs, used by two callers (WalletSpec);       *)
(*   - the polling loop matching_transaction of                            *)
(*     src/cnd/src/btsieve/ethereum/mod.rs on a growing chain              *)
(*     (WatcherSpec).                                                      *)
(* Amounts are small naturals (satoshi / attodai units), rates are exact   *)
(* rationals written <<numerator, denominator>>.                           *)
(***************************************************************************)
EXTENDS Integers, Sequences, FiniteSets, TLC

VARIABLES
    maker,          \* the Maker struct (maker.rs:20-31), a record
    panicked,       \* TRUE once a checked Amount operation has aborted the process
    last,           \* history: the last Maker operation, its input, result and pre-state
    live,           \* history: the accepted orders whose swap is not finished yet
    finished,       \* history: the takers for which a process_finished_swap returned
    alice_pc,       \* Alice's position in hbit_herc20_alice
    alice_tag,      \* the context attached to Alice's swap_result
    bob_pc,         \* Bob's position in hbit_herc20_bob
    bob_tag,        \* the context attached to Bob's swap_result
    bob_secret,     \* the secret Bob took from the herc20 Redeemed event
    hbit,           \* the Bitcoin HTLC on chain
    herc20,         \* the Ethereum ERC20 HTLC on chain
    revealed,       \* the secret published by the herc20 redeem transaction
    now,            \* chain time
    hbit_expiry,    \* hbit_params.shared.expiry
    herc20_expiry,  \* herc20_params.expiry
    hbit_redeem_secret, \* the secret in the witness of Bob's hbit redeem transaction
    calls,          \* the Wallet's sending operations in progress, one per caller
    sent,           \* the raw transactions the node accepted from the Wallet's account
    mined,          \* how many of them are in a block
    block,          \* the latest block of the Ethereum chain
    target_mined,   \* history: a transaction matching the pattern was mined since the start
    watcher_pc,     \* the watcher's position in matching_transaction
    latest_block,   \* the watcher's local latest_block
    tx_index,       \* the position of the for loop in latest_block.transactions
    receipts_fetched, \* history: the positions whose receipt was asked for in this iteration
    receipts_failed, \* history: the positions whose receipt was not delivered
    answered,       \* history: the connector's last answer in this iteration
    watcher_result, \* what matching_transaction returned
    start_time      \* the _timestamp argument of matching_transactions

makerVars == <<maker, panicked, last, live, finished>>
swapVars == <<alice_pc, alice_tag, bob_pc, bob_tag, bob_secret, hbit, herc20,
              revealed, now, hbit_expiry, herc20_expiry, hbit_redeem_secret>>
walletVars == <<calls, sent, mined>>
watcherVars == <<block, target_mined, watcher_pc, latest_block, tx_index, receipts_fetched,
                 receipts_failed, answered, watcher_result, start_time>>
ethVars == <<calls, sent, mined, block, target_mined, watcher_pc, latest_block, tx_index,
             receipts_fetched, receipts_failed, answered, watcher_result, start_time>>
vars == <<maker, panicked, last, live, finished, alice_pc, alice_tag, bob_pc, bob_tag, bob_secret,
          hbit, herc20, revealed, now, hbit_expiry, herc20_expiry, hbit_redeem_secret,
          calls, sent, mined, block, target_mined, watcher_pc, latest_block, tx_index,
          receipts_fetched, receipts_failed, answered, watcher_result, start_time>>

----------------------------------------------------------------------------
(* Bounds of the model *)

MaxAmount == 2

MaxTime == 2

Amounts == 0..MaxAmount

\* <<base, quote>> of the orders a taker sends: rates 1, 2, 1/2 and 3/2
OrderAmounts == {<<1, 1>>, <<1, 2>>, <<2, 1>>, <<2, 3>>}

Takers == {0, 1}

Rates == {1, 2}

\* The arguments of Maker::new that no operation changes
Configs ==
    {[btc_fee |-> 0, spread |-> 0, btc_max |-> <<>>, dai_max |-> <<>>],
     [btc_fee |-> 1, spread |-> 5000, btc_max |-> <<1>>, dai_max |-> <<1>>],
     [btc_fee |-> 1, spread |-> 0, btc_max |-> <<>>, dai_max |-> <<1>>]}

----------------------------------------------------------------------------
(* Option<T> *)

None == <<>>

Some(v) == <<v>>

IsSome(o) == o /= <<>>

Unwrap(o) == o[1]

----------------------------------------------------------------------------
(* Amount, Rate, Spread, PeersWithOngoingTrades: value types used by the Maker *)

\* Amount subtraction is checked: an underflow aborts (None stands for the panic).
CheckedSub(a, b) == IF b > a THEN None ELSE Some(a - b)

TenThousand == 10000

RateOf(n) == <<n, 1>>

\* Rate::try_from(BtcDaiOrder): quote per base
OrderRate(inner) == <<inner.quote, inner.base>>

\* Rate::try_from(BtcDaiOrder) is fallible: an order without base has no rate
RateTryFrom(inner) == IF inner.base = 0 THEN None ELSE Some(OrderRate(inner))

\* Amount::worth_in: a bitcoin amount in dai and a dai amount in bitcoin at a rate,
\* in whole units
WorthInDai(base, rate) == (base * rate[1]) \div rate[2]

WorthInBtc(quote, rate) == (quote * rate[2]) \div rate[1]

RateLt(a, b) == a[1] * b[2] < b[1] * a[2]

RateGt(a, b) == RateLt(b, a)

\* Spread::apply: mid * (1 - s) for Buy, mid * (1 + s) for Sell, s = bps / 10000
SpreadApply(spread, rate, position) ==
    IF position = "Buy"
    THEN <<rate[1] * (TenThousand - spread), rate[2] * TenThousand>>
    ELSE <<rate[1] * (TenThousand + spread), rate[2] * TenThousand>>

HasAnOngoingTrade(peers, taker) == taker \in peers

PeersInsert(peers, taker) == peers \cup {taker}

PeersRemove(peers, taker) == peers \ {taker}

Min(a, b) == IF a < b THEN a ELSE b

\* BtcDaiOrder::new_sell: the largest sell order the free balance and the cap allow
BtcDaiOrderNewSell(balance, fee, reserved, max_amount, rate, spread) ==
    IF balance < reserved + fee
    THEN [err |-> "InsufficientFunds"]
    ELSE LET free == balance - reserved - fee
             base == IF IsSome(max_amount) THEN Min(free, Unwrap(max_amount)) ELSE free
             price == SpreadApply(spread, rate, "Sell")
         IN  [err |-> "", position |-> "Sell", base |-> base,
              quote |-> WorthInDai(base, price), rate |-> price]

\* BtcDaiOrder::new_buy: the largest buy order the free balance and the cap allow
BtcDaiOrderNewBuy(balance, reserved, max_amount, rate, spread) ==
    IF balance < reserved
    THEN [err |-> "InsufficientFunds"]
    ELSE LET free == balance - reserved
             quote == IF IsSome(max_amount) THEN Min(free, Unwrap(max_amount)) ELSE free
             price == SpreadApply(spread, rate, "Buy")
         IN  [err |-> "", position |-> "Buy", base |-> WorthInBtc(quote, price),
              quote |-> quote, rate |-> price]

----------------------------------------------------------------------------
(* Maker (src/src/maker.rs).  Each operation is an operator from the Maker   *)
(* record and the input to the new record and the returned value.            *)

\* Maker::new: balances and rate known, nothing reserved, no ongoing taker
MakerNew(btc_balance, dai_balance, btc_fee, btc_max, dai_max, rate, spread) ==
    [btc_balance |-> Some(btc_balance),
     dai_balance |-> Some(dai_balance),
     btc_fee |-> btc_fee,
     btc_reserved_funds |-> 0,
     dai_reserved_funds |-> 0,
     btc_max_sell_amount |-> btc_max,
     dai_max_sell_amount |-> dai_max,
     mid_market_rate |-> Some(rate),
     spread |-> spread,
     ongoing_takers |-> {}]

\* Mutant: the balance is matched before the rate
new_sell_order_balance_first(m) ==
    IF ~IsSome(m.btc_balance) THEN [err |-> "BalanceNotAvailable"]
    ELSE IF ~IsSome(m.mid_market_rate) THEN [err |-> "RateNotAvailable"]
    ELSE BtcDaiOrderNewSell(Unwrap(m.btc_balance), m.btc_fee, m.btc_reserved_funds,
                            m.btc_max_sell_amount, RateOf(Unwrap(m.mid_market_rate)),
                            m.spread)

new_sell_order(m) ==
    IF ~IsSome(m.mid_market_rate) THEN [err |-> "RateNotAvailable"]
    ELSE IF ~IsSome(m.btc_balance) THEN [err |-> "BalanceNotAvailable"]
    ELSE BtcDaiOrderNewSell(Unwrap(m.btc_balance), m.btc_fee, m.btc_reserved_funds,
                            m.btc_max_sell_amount, RateOf(Unwrap(m.mid_market_rate)),
                            m.spread)

new_buy_order(m) ==
    IF ~IsSome(m.mid_market_rate) THEN [err |-> "RateNotAvailable"]
    ELSE IF ~IsSome(m.dai_balance) THEN [err |-> "BalanceNotAvailable"]
    ELSE BtcDaiOrderNewBuy(Unwrap(m.dai_balance), m.dai_reserved_funds,
                           m.dai_max_sell_amount, RateOf(Unwrap(m.mid_market_rate)),
                           m.spread)

\* The value an order-producing call returns: Err(e), or Ok(Some(orders))
OrderRet(orders) ==
    LET failed == {i \in 1..Len(orders) : orders[i].err /= ""}
    IN  IF failed = {}
        THEN [kind |-> "Some", orders |-> orders]
        ELSE [kind |-> "Err", err |-> orders[CHOOSE i \in failed : \A j \in failed : i <= j].err]

\* Mutant: the new rate is not compared with the stored one
update_rate_always_publishes(m, rate) ==
    LET m2 == [m EXCEPT !.mid_market_rate = Some(rate)]
    IN  [m |-> m2, ret |-> OrderRet(<<new_sell_order(m2), new_buy_order(m2)>>)]

\* Mutant: the rate is stored only when both orders could be built
update_rate_store_on_success(m, rate) ==
    IF m.mid_market_rate = Some(rate)
    THEN [m |-> m, ret |-> [kind |-> "None"]]
    ELSE LET m2 == [m EXCEPT !.mid_market_rate = Some(rate)]
             ret == OrderRet(<<new_sell_order(m2), new_buy_order(m2)>>)
         IN  [m |-> IF ret.kind = "Err" THEN m ELSE m2, ret |-> ret]

update_rate(m, rate) ==
    IF m.mid_market_rate = Some(rate)
    THEN [m |-> m, ret |-> [kind |-> "None"]]
    ELSE LET m2 == [m EXCEPT !.mid_market_rate = Some(rate)]
         IN  [m |-> m2, ret |-> OrderRet(<<new_sell_order(m2), new_buy_order(m2)>>)]

invalidate_rate(m) == [m EXCEPT !.mid_market_rate = None]

\* Mutant: an unchanged balance is stored again and a new order is published
update_bitcoin_balance_always_publishes(m, balance) ==
    LET m2 == [m EXCEPT !.btc_balance = Some(balance)]
    IN  [m |-> m2, ret |-> OrderRet(<<new_sell_order(m2)>>)]

update_bitcoin_balance(m, balance) ==
    IF m.btc_balance = Some(balance)
    THEN [m |-> m, ret |-> [kind |-> "None"]]
    ELSE LET m2 == [m EXCEPT !.btc_balance = Some(balance)]
         IN  [m |-> m2, ret |-> OrderRet(<<new_sell_order(m2)>>)]

invalidate_bitcoin_balance(m) == [m EXCEPT !.btc_balance = None]

\* Mutant: the previous balance is put back when the order cannot be built
update_dai_balance_rolls_back(m, balance) ==
    IF m.dai_balance = Some(balance)
    THEN [m |-> m, ret |-> [kind |-> "None"]]
    ELSE LET m2 == [m EXCEPT !.dai_balance = Some(balance)]
             ret == OrderRet(<<new_buy_order(m2)>>)
         IN  [m |-> IF ret.kind = "Err" THEN m ELSE m2, ret |-> ret]

update_dai_balance(m, balance) ==
    IF m.dai_balance = Some(balance)
    THEN [m |-> m, ret |-> [kind |-> "None"]]
    ELSE LET m2 == [m EXCEPT !.dai_balance = Some(balance)]
         IN  [m |-> m2, ret |-> OrderRet(<<new_buy_order(m2)>>)]

invalidate_dai_balance(m) == [m EXCEPT !.dai_balance = None]

\* Mutant: the profitability test of the Buy arm written >= instead of >
take_buy_order_ge(m, order, current_profitable_rate, order_rate) ==
    IF ~IsSome(m.dai_balance)
    THEN [m |-> m, ret |-> "Err_BalanceNotAvailable"]
    ELSE IF ~RateLt(order_rate, current_profitable_rate)
    THEN [m |-> m, ret |-> "RateNotProfitable"]
    ELSE LET updated_dai_reserved_funds == m.dai_reserved_funds + order.quote
         IN  IF updated_dai_reserved_funds > Unwrap(m.dai_balance)
             THEN [m |-> m, ret |-> "InsufficientFunds"]
             ELSE [m |-> [m EXCEPT !.dai_reserved_funds = updated_dai_reserved_funds],
                   ret |-> "GoForSwap"]

\* Mutant: the Buy arm commits the reservation without comparing it to the balance
take_buy_order_unchecked(m, order, current_profitable_rate, order_rate) ==
    IF ~IsSome(m.dai_balance)
    THEN [m |-> m, ret |-> "Err_BalanceNotAvailable"]
    ELSE IF RateGt(order_rate, current_profitable_rate)
    THEN [m |-> m, ret |-> "RateNotProfitable"]
    ELSE [m |-> [m EXCEPT !.dai_reserved_funds = m.dai_reserved_funds + order.quote],
          ret |-> "GoForSwap"]

\* Mutant: the Buy arm stores the new reservation before comparing it to the balance
take_buy_order_reserve_first(m, order, current_profitable_rate, order_rate) ==
    IF ~IsSome(m.dai_balance)
    THEN [m |-> m, ret |-> "Err_BalanceNotAvailable"]
    ELSE IF RateGt(order_rate, current_profitable_rate)
    THEN [m |-> m, ret |-> "RateNotProfitable"]
    ELSE LET updated == [m EXCEPT !.dai_reserved_funds = m.dai_reserved_funds + order.quote]
         IN  IF updated.dai_reserved_funds > Unwrap(m.dai_balance)
             THEN [m |-> updated, ret |-> "InsufficientFunds"]
             ELSE [m |-> updated, ret |-> "GoForSwap"]

\* process_taken_order, the Buy arm (maker.rs:178-198): order = [position, base, quote, taker]
take_buy_order(m, order, current_profitable_rate, order_rate) ==
    IF ~IsSome(m.dai_balance)
    THEN [m |-> m, ret |-> "Err_BalanceNotAvailable"]
    ELSE IF RateGt(order_rate, current_profitable_rate)
    THEN [m |-> m, ret |-> "RateNotProfitable"]
    ELSE LET updated_dai_reserved_funds == m.dai_reserved_funds + order.quote
         IN  IF updated_dai_reserved_funds > Unwrap(m.dai_balance)
             THEN [m |-> m, ret |-> "InsufficientFunds"]
             ELSE [m |-> [m EXCEPT !.dai_reserved_funds = updated_dai_reserved_funds],
                   ret |-> "GoForSwap"]

\* Mutant: the Sell arm reserves the base without the fee
take_sell_order_no_fee(m, order, current_profitable_rate, order_rate) ==
    IF ~IsSome(m.btc_balance)
    THEN [m |-> m, ret |-> "Err_BalanceNotAvailable"]
    ELSE IF RateLt(order_rate, current_profitable_rate)
    THEN [m |-> m, ret |-> "RateNotProfitable"]
    ELSE LET updated_btc_reserved_funds == m.btc_reserved_funds + order.base
         IN  IF updated_btc_reserved_funds > Unwrap(m.btc_balance)
             THEN [m |-> m, ret |-> "InsufficientFunds"]
             ELSE [m |-> [m EXCEPT !.btc_reserved_funds = updated_btc_reserved_funds],
                   ret |-> "GoForSwap"]

\* Mutant: the Sell arm commits the reservation without comparing it to the balance
take_sell_order_unchecked(m, order, current_profitable_rate, order_rate) ==
    IF ~IsSome(m.btc_balance)
    THEN [m |-> m, ret |-> "Err_BalanceNotAvailable"]
    ELSE IF RateLt(order_rate, current_profitable_rate)
    THEN [m |-> m, ret |-> "RateNotProfitable"]
    ELSE [m |-> [m EXCEPT !.btc_reserved_funds =
                              m.btc_reserved_funds + order.base + m.btc_fee],
          ret |-> "GoForSwap"]

\* process_taken_order, the Sell arm (maker.rs:206-226)
take_sell_order(m, order, current_profitable_rate, order_rate) ==
    IF ~IsSome(m.btc_balance)
    THEN [m |-> m, ret |-> "Err_BalanceNotAvailable"]
    ELSE IF RateLt(order_rate, current_profitable_rate)
    THEN [m |-> m, ret |-> "RateNotProfitable"]
    ELSE LET updated_btc_reserved_funds == m.btc_reserved_funds + order.base + m.btc_fee
         IN  IF updated_btc_reserved_funds > Unwrap(m.btc_balance)
             THEN [m |-> m, ret |-> "InsufficientFunds"]
             ELSE [m |-> [m EXCEPT !.btc_reserved_funds = updated_btc_reserved_funds],
                   ret |-> "GoForSwap"]

\* The match on the mid-market rate and the order's position (maker.rs:165-237)
match_rate_and_position(m, order) ==
    IF ~IsSome(m.mid_market_rate)
    THEN [m |-> m, ret |-> "Err_RateNotAvailable"]
    ELSE LET current_profitable_rate ==
                 SpreadApply(m.spread, RateOf(Unwrap(m.mid_market_rate)), order.position)
             order_rate == RateTryFrom(order)
         IN  IF ~IsSome(order_rate)
             THEN [m |-> m, ret |-> "Err_RateTryFrom"]
             ELSE IF order.position = "Buy"
             THEN take_buy_order(m, order, current_profitable_rate, Unwrap(order_rate))
             ELSE take_sell_order(m, order, current_profitable_rate, Unwrap(order_rate))

\* Mutant: the rate and the balance are looked at before the ongoing takers
process_taken_order_rate_first(m, order) ==
    LET r == match_rate_and_position(m, order)
    IN  IF r.ret \in {"Err_RateNotAvailable", "Err_BalanceNotAvailable", "RateNotProfitable"}
        THEN r
        ELSE IF HasAnOngoingTrade(m.ongoing_takers, order.taker)
        THEN [m |-> m, ret |-> "CannotTradeWithTaker"]
        ELSE IF r.ret = "GoForSwap"
        THEN [m |-> [r.m EXCEPT !.ongoing_takers = PeersInsert(@, order.taker)],
              ret |-> "GoForSwap"]
        ELSE r

\* Mutant: an accepted taker is not inserted into ongoing_takers
process_taken_order_no_insert(m, order) ==
    IF HasAnOngoingTrade(m.ongoing_takers, order.taker)
    THEN [m |-> m, ret |-> "CannotTradeWithTaker"]
    ELSE match_rate_and_position(m, order)

\* Mutant: the taker is inserted before the rate and the balance are looked at
process_taken_order_insert_first(m, order) ==
    IF HasAnOngoingTrade(m.ongoing_takers, order.taker)
    THEN [m |-> m, ret |-> "CannotTradeWithTaker"]
    ELSE LET m2 == [m EXCEPT !.ongoing_takers = PeersInsert(@, order.taker)]
             r == match_rate_and_position(m2, order)
         IN  r

process_taken_order(m, order) ==
    IF HasAnOngoingTrade(m.ongoing_takers, order.taker)
    THEN [m |-> m, ret |-> "CannotTradeWithTaker"]
    ELSE LET r == match_rate_and_position(m, order)
         IN  IF r.ret = "GoForSwap"
             THEN [m |-> [r.m EXCEPT !.ongoing_takers = PeersInsert(@, order.taker)],
                   ret |-> "GoForSwap"]
             ELSE r

\* Mutant: Free::Btc frees the amount without the fee
process_finished_swap_no_fee(m, free, taker) ==
    LET left == IF free.kind = "Dai"
                THEN CheckedSub(m.dai_reserved_funds, free.amount)
                ELSE CheckedSub(m.btc_reserved_funds, free.amount)
    IN  IF ~IsSome(left)
        THEN [m |-> m, ret |-> "panic"]
        ELSE [m |-> [m EXCEPT !.dai_reserved_funds =
                                  IF free.kind = "Dai" THEN Unwrap(left) ELSE @,
                              !.btc_reserved_funds =
                                  IF free.kind = "Btc" THEN Unwrap(left) ELSE @,
                              !.ongoing_takers = PeersRemove(@, taker)],
              ret |-> "ok"]

\* Mutant: the taker stays in ongoing_takers
process_finished_swap_keep_taker(m, free, taker) ==
    LET left == IF free.kind = "Dai"
                THEN CheckedSub(m.dai_reserved_funds, free.amount)
                ELSE CheckedSub(m.btc_reserved_funds, free.amount + m.btc_fee)
    IN  IF ~IsSome(left)
        THEN [m |-> m, ret |-> "panic"]
        ELSE [m |-> [m EXCEPT !.dai_reserved_funds =
                                  IF free.kind = "Dai" THEN Unwrap(left) ELSE @,
                              !.btc_reserved_funds =
                                  IF free.kind = "Btc" THEN Unwrap(left) ELSE @],
              ret |-> "ok"]

\* Mutant: the reserved funds are signed and the subtraction is not checked
process_finished_swap_unchecked(m, free, taker) ==
    [m |-> [m EXCEPT !.dai_reserved_funds =
                         IF free.kind = "Dai" THEN @ - free.amount ELSE @,
                     !.btc_reserved_funds =
                         IF free.kind = "Btc" THEN @ - (free.amount + m.btc_fee) ELSE @,
                     !.ongoing_takers = PeersRemove(@, taker)],
     ret |-> "ok"]

\* Mutant: finishing a swap empties the pool instead of subtracting the swap's amount
process_finished_swap_empties_pool(m, free, taker) ==
    [m |-> [m EXCEPT !.dai_reserved_funds = IF free.kind = "Dai" THEN 0 ELSE @,
                     !.btc_reserved_funds = IF free.kind = "Btc" THEN 0 ELSE @,
                     !.ongoing_takers = PeersRemove(@, taker)],
     ret |-> "ok"]

\* process_finished_swap: free = [kind, amount]; the subtraction is checked
process_finished_swap(m, free, taker) ==
    LET left == IF free.kind = "Dai"
                THEN CheckedSub(m.dai_reserved_funds, free.amount)
                ELSE CheckedSub(m.btc_reserved_funds, free.amount + m.btc_fee)
    IN  IF ~IsSome(left)
        THEN [m |-> m, ret |-> "panic"]
        ELSE [m |-> [m EXCEPT !.dai_reserved_funds =
                                  IF free.kind = "Dai" THEN Unwrap(left) ELSE @,
                              !.btc_reserved_funds =
                                  IF free.kind = "Btc" THEN Unwrap(left) ELSE @,
                              !.ongoing_takers = PeersRemove(@, taker)],
              ret |-> "ok"]

----------------------------------------------------------------------------
(* The Maker's actions: one per public operation, on `maker` and `panicked`. *)

Orders ==
    {[position |-> p, base |-> a[1], quote |-> a[2], taker |-> t] :
        p \in {"Buy", "Sell"}, a \in OrderAmounts, t \in Takers}

Frees == [kind : {"Btc", "Dai"}, amount : Amounts]

\* The amount process_finished_swap must free for an accepted order
FreeOf(order) ==
    IF order.position = "Sell"
    THEN [kind |-> "Btc", amount |-> order.base]
    ELSE [kind |-> "Dai", amount |-> order.quote]

UpdateRate(rate) ==
    /\ ~panicked
    /\ maker' = update_rate(maker, rate).m
    /\ UNCHANGED panicked

InvalidateRate ==
    /\ ~panicked
    /\ maker' = invalidate_rate(maker)
    /\ UNCHANGED panicked

UpdateBitcoinBalance(balance) ==
    /\ ~panicked
    /\ maker' = update_bitcoin_balance(maker, balance).m
    /\ UNCHANGED panicked

InvalidateBitcoinBalance ==
    /\ ~panicked
    /\ maker' = invalidate_bitcoin_balance(maker)
    /\ UNCHANGED panicked

UpdateDaiBalance(balance) ==
    /\ ~panicked
    /\ maker' = update_dai_balance(maker, balance).m
    /\ UNCHANGED panicked

InvalidateDaiBalance ==
    /\ ~panicked
    /\ maker' = invalidate_dai_balance(maker)
    /\ UNCHANGED panicked

ProcessTakenOrder(order) ==
    /\ ~panicked
    /\ maker' = process_taken_order(maker, order).m
    /\ UNCHANGED panicked

ProcessFinishedSwap(free, taker) ==
    /\ ~panicked
    /\ maker' = process_finished_swap(maker, free, taker).m
    /\ panicked' = (process_finished_swap(maker, free, taker).ret = "panic")

\* No Wallet operation and no watcher is running
NoEthereum ==
    /\ calls = None /\ sent = <<>> /\ mined = 0
    /\ block = None /\ target_mined = FALSE
    /\ watcher_pc = "idle" /\ latest_block = None /\ tx_index = 0
    /\ receipts_fetched = {} /\ receipts_failed = {} /\ answered = "none" /\ watcher_result = None
    /\ start_time = None

MakerInit ==
    /\ \E bb \in Amounts, db \in Amounts, rate \in Rates, c \in Configs :
          maker = MakerNew(bb, db, c.btc_fee, c.btc_max, c.dai_max, rate, c.spread)
    /\ panicked = FALSE
    /\ last = [op |-> "new", arg |-> None, ret |-> None, pre |-> None, before |-> None]
    /\ live = {}
    /\ finished = {}
    \* no swap is modelled here
    /\ alice_pc = "idle" /\ alice_tag = "none"
    /\ bob_pc = "idle" /\ bob_tag = "none" /\ bob_secret = None
    /\ hbit = "none" /\ herc20 = "none" /\ revealed = None
    /\ now = 0 /\ hbit_expiry = 0 /\ herc20_expiry = 0 /\ hbit_redeem_secret = None
    /\ NoEthereum

----------------------------------------------------------------------------
(* MakerSpec: every sequence of Maker operations, with the last call recorded *)

Call(op, arg, ret, before) ==
    last' = [op |-> op, arg |-> arg, ret |-> ret, pre |-> maker, before |-> before]

\* The reserved funds from before the acceptance, when this call finishes exactly
\* the swap that the previous call accepted.
BeforeAcceptance(free, taker) ==
    IF /\ last.op = "process_taken_order"
       /\ last.ret = "GoForSwap"
       /\ last.arg.taker = taker
       /\ FreeOf(last.arg) = free
    THEN Some([btc_reserved_funds |-> last.pre.btc_reserved_funds,
               dai_reserved_funds |-> last.pre.dai_reserved_funds])
    ELSE None

MakerNext ==
    \/ \E rate \in Rates :
          /\ UpdateRate(rate)
          /\ Call("update_rate", rate, update_rate(maker, rate).ret, None)
          /\ UNCHANGED <<live, finished, swapVars, ethVars>>
    \/ /\ InvalidateRate
       /\ Call("invalidate_rate", None, None, None)
       /\ UNCHANGED <<live, finished, swapVars, ethVars>>
    \/ \E balance \in Amounts :
          /\ UpdateBitcoinBalance(balance)
          /\ Call("update_bitcoin_balance", balance,
                  update_bitcoin_balance(maker, balance).ret, None)
          /\ UNCHANGED <<live, finished, swapVars, ethVars>>
    \/ /\ InvalidateBitcoinBalance
       /\ Call("invalidate_bitcoin_balance", None, None, None)
       /\ UNCHANGED <<live, finished, swapVars, ethVars>>
    \/ \E balance \in Amounts :
          /\ UpdateDaiBalance(balance)
          /\ Call("update_dai_balance", balance, update_dai_balance(maker, balance).ret, None)
          /\ UNCHANGED <<live, finished, swapVars, ethVars>>
    \/ /\ InvalidateDaiBalance
       /\ Call("invalidate_dai_balance", None, None, None)
       /\ UNCHANGED <<live, finished, swapVars, ethVars>>
    \/ \E order \in Orders :
          /\ ProcessTakenOrder(order)
          /\ Call("process_taken_order", order, process_taken_order(maker, order).ret, None)
          /\ UNCHANGED <<live, finished, swapVars, ethVars>>
    \/ \E free \in Frees, taker \in Takers :
          /\ ProcessFinishedSwap(free, taker)
          /\ Call("process_finished_swap", [free |-> free, taker |-> taker],
                  process_finished_swap(maker, free, taker).ret,
                  BeforeAcceptance(free, taker))
          /\ UNCHANGED <<live, finished, swapVars, ethVars>>

MakerSpec == MakerInit /\ [][MakerNext]_vars

----------------------------------------------------------------------------
(* MakerSwapsSpec: the same operations, with the live swaps recorded instead *)

Accept(order) ==
    /\ live' = IF process_taken_order(maker, order).ret = "GoForSwap"
               THEN live \cup {order}
               ELSE live
    /\ UNCHANGED finished

Finish(free, taker) ==
    IF process_finished_swap(maker, free, taker).ret = "ok"
    THEN /\ live' = {o \in live : o.taker /= taker}
         /\ finished' = finished \cup {taker}
    ELSE UNCHANGED <<live, finished>>

MakerSwapsNext ==
    \/ \E rate \in Rates :
          UpdateRate(rate) /\ UNCHANGED <<last, live, finished, swapVars, ethVars>>
    \/ InvalidateRate /\ UNCHANGED <<last, live, finished, swapVars, ethVars>>
    \/ \E balance \in Amounts :
          UpdateBitcoinBalance(balance) /\ UNCHANGED <<last, live, finished, swapVars, ethVars>>
    \/ InvalidateBitcoinBalance /\ UNCHANGED <<last, live, finished, swapVars, ethVars>>
    \/ \E balance \in Amounts :
          UpdateDaiBalance(balance) /\ UNCHANGED <<last, live, finished, swapVars, ethVars>>
    \/ InvalidateDaiBalance /\ UNCHANGED <<last, live, finished, swapVars, ethVars>>
    \/ \E order \in Orders :
          ProcessTakenOrder(order) /\ Accept(order) /\ UNCHANGED <<last, swapVars, ethVars>>
    \/ \E free \in Frees, taker \in Takers :
          ProcessFinishedSwap(free, taker) /\ Finish(free, taker) /\ UNCHANGED <<last, swapVars, ethVars>>

MakerSwapsSpec == MakerInit /\ [][MakerSwapsNext]_vars

----------------------------------------------------------------------------
(* MakerOwnSwapsSpec: the same operations, where the caller finishes live swaps only
   and frees for each the amount of its own order *)

FinishOwn(order) ==
    /\ ProcessFinishedSwap(FreeOf(order), order.taker)
    /\ Finish(FreeOf(order), order.taker)

MakerOwnSwapsNext ==
    \/ \E rate \in Rates :
          UpdateRate(rate) /\ UNCHANGED <<last, live, finished, swapVars, ethVars>>
    \/ InvalidateRate /\ UNCHANGED <<last, live, finished, swapVars, ethVars>>
    \/ \E balance \in Amounts :
          UpdateBitcoinBalance(balance) /\ UNCHANGED <<last, live, finished, swapVars, ethVars>>
    \/ InvalidateBitcoinBalance /\ UNCHANGED <<last, live, finished, swapVars, ethVars>>
    \/ \E balance \in Amounts :
          UpdateDaiBalance(balance) /\ UNCHANGED <<last, live, finished, swapVars, ethVars>>
    \/ InvalidateDaiBalance /\ UNCHANGED <<last, live, finished, swapVars, ethVars>>
    \/ \E order \in Orders :
          ProcessTakenOrder(order) /\ Accept(order) /\ UNCHANGED <<last, swapVars, ethVars>>
    \/ \E order \in live :
          FinishOwn(order) /\ UNCHANGED <<last, swapVars, ethVars>>

MakerOwnSwapsSpec == MakerInit /\ [][MakerOwnSwapsNext]_vars

----------------------------------------------------------------------------
(* MakerPublishedSpec: the same operations, and a taker that takes the order   *)
(* the Maker publishes in its current state; only that call is recorded.       *)

\* The order new_sell_order / new_buy_order returns, as a taker sends it back
PublishedOrder(m, position, taker) ==
    LET published == IF position = "Sell" THEN new_sell_order(m) ELSE new_buy_order(m)
    IN  IF published.err /= ""
        THEN None
        ELSE Some([position |-> published.position, base |-> published.base,
                   quote |-> published.quote, taker |-> taker])

Feed == last' = [op |-> "feed"]

TakePublishedOrder(position, taker) ==
    /\ IsSome(PublishedOrder(maker, position, taker))
    /\ LET order == Unwrap(PublishedOrder(maker, position, taker))
       IN  /\ ProcessTakenOrder(order)
           /\ last' = [op |-> "take_published_order", arg |-> order,
                       ret |-> process_taken_order(maker, order).ret, pre |-> maker]

MakerPublishedNext ==
    \/ \E rate \in Rates :
          UpdateRate(rate) /\ Feed /\ UNCHANGED <<live, finished, swapVars, ethVars>>
    \/ InvalidateRate /\ Feed /\ UNCHANGED <<live, finished, swapVars, ethVars>>
    \/ \E balance \in Amounts :
          UpdateBitcoinBalance(balance) /\ Feed /\ UNCHANGED <<live, finished, swapVars, ethVars>>
    \/ InvalidateBitcoinBalance /\ Feed /\ UNCHANGED <<live, finished, swapVars, ethVars>>
    \/ \E balance \in Amounts :
          UpdateDaiBalance(balance) /\ Feed /\ UNCHANGED <<live, finished, swapVars, ethVars>>
    \/ InvalidateDaiBalance /\ Feed /\ UNCHANGED <<live, finished, swapVars, ethVars>>
    \/ \E order \in Orders :
          ProcessTakenOrder(order) /\ Feed /\ UNCHANGED <<live, finished, swapVars, ethVars>>
    \/ \E free \in Frees, taker \in Takers :
          ProcessFinishedSwap(free, taker) /\ Feed /\ UNCHANGED <<live, finished, swapVars, ethVars>>
    \/ \E position \in {"Buy", "Sell"}, taker \in Takers :
          TakePublishedOrder(position, taker) /\ UNCHANGED <<live, finished, swapVars, ethVars>>

MakerPublishedSpec == MakerInit /\ [][MakerPublishedNext]_vars

----------------------------------------------------------------------------
(* The hbit -> herc20 swap (src/nectar/src/swap/comit/hbit_herc20.rs): Alice   *)
(* funds the Bitcoin HTLC (hbit) and redeems the ERC20 HTLC (herc20) with her  *)
(* secret; Bob deploys and funds herc20 and redeems hbit with the secret he    *)
(* reads from the herc20 Redeemed event.  Every step may fail; a failed step   *)
(* leaves the chains as they are.  A watch returns its event once the chain    *)
(* holds it.                                                                   *)

TheSecret == "secret"

Expiries == 1..MaxTime

HbitExpired == now >= hbit_expiry

Herc20Expired == now >= herc20_expiry

\* Mutant: an HTLC funded with another amount counts as funded
HbitWasFundedAnyAmount == hbit /= "none"

\* The events a watcher finds on a chain.  hbit::watch_for_funded returns Funded for
\* comit::hbit::Funded::Correctly only; a correctly funded HTLC may since have been
\* redeemed or refunded
HbitWasFunded == hbit \in {"funded", "redeemed", "refunded"}

\* comit::hbit::Funded::Incorrectly: the HTLC's address holds another amount
HbitWasFundedIncorrectly == hbit = "funded_incorrectly"

Herc20WasDeployed == herc20 /= "none"

Herc20WasFunded == herc20 \in {"funded", "redeemed", "refunded"}

Herc20WasRedeemed == herc20 = "redeemed"

AliceKeeps ==
    UNCHANGED <<bob_pc, bob_tag, bob_secret, hbit_redeem_secret, now, hbit_expiry, herc20_expiry>>

BobKeeps == UNCHANGED <<alice_pc, alice_tag, now, hbit_expiry, herc20_expiry>>

\* Mutant: the failure is recorded and the block goes on
AliceFailsGoesOn(step, tag) ==
    /\ alice_pc = step
    /\ alice_pc' = step
    /\ alice_tag' = tag
    /\ UNCHANGED <<hbit, herc20, revealed>>
    /\ AliceKeeps

\* A step of Alice's swap_result block fails: the block ends with the step's context
AliceFails(step, tag) ==
    /\ alice_pc = step
    /\ alice_pc' = "refund_if_necessary"
    /\ alice_tag' = tag
    /\ UNCHANGED <<hbit, herc20, revealed>>
    /\ AliceKeeps

\* alice.execute_fund(&hbit_params)
AliceExecuteFund ==
    /\ alice_pc = "execute_fund"
    /\ hbit = "none"
    /\ hbit' = "funded"
    /\ alice_pc' = "watch_for_deployed"
    /\ UNCHANGED <<alice_tag, herc20, revealed>>
    /\ AliceKeeps

\* Mutant: the failed fund carries the ShouldRefund context
AliceExecuteFundFailsShouldRefund == AliceFails("execute_fund", "ShouldRefund")

AliceExecuteFundFails == AliceFails("execute_fund", "NoRefund")

\* The funding transaction pays another amount than hbit_params.asset to the HTLC
AliceExecuteFundIncorrectly ==
    /\ alice_pc = "execute_fund"
    /\ hbit = "none"
    /\ hbit' = "funded_incorrectly"
    /\ alice_pc' = "watch_for_deployed"
    /\ UNCHANGED <<alice_tag, herc20, revealed>>
    /\ AliceKeeps

\* Mutant: once the deployment is seen, Alice goes on to redeem
AliceWatchForDeployedSkipsFunded ==
    /\ alice_pc = "watch_for_deployed"
    /\ Herc20WasDeployed
    /\ alice_pc' = "execute_redeem"
    /\ UNCHANGED <<alice_tag, hbit, herc20, revealed>>
    /\ AliceKeeps

\* alice.watch_for_deployed(herc20_params, ..)
AliceWatchForDeployed ==
    /\ alice_pc = "watch_for_deployed"
    /\ Herc20WasDeployed
    /\ alice_pc' = "watch_for_funded"
    /\ UNCHANGED <<alice_tag, hbit, herc20, revealed>>
    /\ AliceKeeps

AliceWatchForDeployedFails == AliceFails("watch_for_deployed", "ShouldRefund")

\* herc20::watch_for_funded(ethereum_connector, ..)
AliceWatchForFunded ==
    /\ alice_pc = "watch_for_funded"
    /\ Herc20WasFunded
    /\ alice_pc' = "execute_redeem"
    /\ UNCHANGED <<alice_tag, hbit, herc20, revealed>>
    /\ AliceKeeps

\* Mutant: the failed watch carries the NoRefund context
AliceWatchForFundedFailsNoRefund == AliceFails("watch_for_funded", "NoRefund")

AliceWatchForFundedFails == AliceFails("watch_for_funded", "ShouldRefund")

\* Mutant: the successful redeem is followed by the ShouldRefund context
AliceExecuteRedeemThenRefund ==
    /\ alice_pc = "execute_redeem"
    /\ herc20 = "funded"
    /\ herc20' = "redeemed"
    /\ revealed' = Some(TheSecret)
    /\ alice_pc' = "refund_if_necessary"
    /\ alice_tag' = "ShouldRefund"
    /\ UNCHANGED hbit
    /\ AliceKeeps

\* alice.execute_redeem(herc20_params, secret, herc20_deployed, ..), then Ok(())
AliceExecuteRedeem ==
    /\ alice_pc = "execute_redeem"
    /\ herc20 = "funded"
    /\ herc20' = "redeemed"
    /\ revealed' = Some(TheSecret)
    /\ alice_pc' = "refund_if_necessary"
    /\ alice_tag' = "Ok"
    /\ UNCHANGED hbit
    /\ AliceKeeps

AliceExecuteRedeemFails == AliceFails("execute_redeem", "ShouldRefund")

\* hbit::refund_if_necessary on Ok or Err(NoRefund): returns the result
AliceReturns ==
    /\ alice_pc = "refund_if_necessary"
    /\ alice_tag \in {"Ok", "NoRefund"}
    /\ alice_pc' = "done"
    /\ UNCHANGED <<alice_tag, hbit, herc20, revealed>>
    /\ AliceKeeps

\* Mutant: the refund is broadcast without waiting for the expiry
AliceExecuteRefundBeforeExpiry ==
    /\ alice_pc = "refund_if_necessary"
    /\ alice_tag = "ShouldRefund"
    /\ hbit = "funded"
    /\ hbit' = "refunded"
    /\ alice_pc' = "done"
    /\ UNCHANGED <<alice_tag, herc20, revealed>>
    /\ AliceKeeps

\* hbit::refund_if_necessary on Err(ShouldRefund): execute_refund once hbit has expired
AliceExecuteRefund ==
    /\ alice_pc = "refund_if_necessary"
    /\ alice_tag = "ShouldRefund"
    /\ HbitExpired
    /\ hbit = "funded"
    /\ hbit' = "refunded"
    /\ alice_pc' = "done"
    /\ UNCHANGED <<alice_tag, herc20, revealed>>
    /\ AliceKeeps

\* A step of Bob's swap_result block fails: the block ends with the step's context
BobFails(step, tag) ==
    /\ bob_pc = step
    /\ bob_pc' = "refund_if_necessary"
    /\ bob_tag' = tag
    /\ UNCHANGED <<bob_secret, hbit_redeem_secret, hbit, herc20, revealed>>
    /\ BobKeeps

\* bob.watch_for_funded(&hbit_params, ..)
BobWatchForFunded ==
    /\ bob_pc = "watch_for_funded"
    /\ HbitWasFunded
    /\ bob_pc' = "execute_deploy"
    /\ UNCHANGED <<bob_tag, bob_secret, hbit_redeem_secret, hbit, herc20, revealed>>
    /\ BobKeeps

BobWatchForFundedFails == BobFails("watch_for_funded", "NoRefund")

\* comit::hbit::Funded::Incorrectly => anyhow::bail!("Bitcoin HTLC incorrectly funded")
BobWatchForFundedIncorrectly ==
    /\ HbitWasFundedIncorrectly
    /\ BobFails("watch_for_funded", "NoRefund")

\* bob.execute_deploy(herc20_params)
BobExecuteDeploy ==
    /\ bob_pc = "execute_deploy"
    /\ herc20 = "none"
    /\ herc20' = "deployed"
    /\ bob_pc' = "execute_fund"
    /\ UNCHANGED <<bob_tag, bob_secret, hbit_redeem_secret, hbit, revealed>>
    /\ BobKeeps

BobExecuteDeployFails == BobFails("execute_deploy", "NoRefund")

\* Mutant: once herc20 is funded, Bob goes on to redeem hbit
BobExecuteFundSkipsWatch ==
    /\ bob_pc = "execute_fund"
    /\ herc20 = "deployed"
    /\ herc20' = "funded"
    /\ bob_pc' = "execute_redeem"
    /\ UNCHANGED <<bob_tag, bob_secret, hbit_redeem_secret, hbit, revealed>>
    /\ BobKeeps

\* bob.execute_fund(herc20_params, herc20_deployed, ..)
BobExecuteFund ==
    /\ bob_pc = "execute_fund"
    /\ herc20 = "deployed"
    /\ herc20' = "funded"
    /\ bob_pc' = "watch_for_redeemed"
    /\ UNCHANGED <<bob_tag, bob_secret, hbit_redeem_secret, hbit, revealed>>
    /\ BobKeeps

BobExecuteFundFails == BobFails("execute_fund", "NoRefund")

\* bob.watch_for_redeemed(herc20_deployed, ..): the event carries the secret
BobWatchForRedeemed ==
    /\ bob_pc = "watch_for_redeemed"
    /\ Herc20WasRedeemed
    /\ bob_secret' = revealed
    /\ bob_pc' = "execute_redeem"
    /\ UNCHANGED <<bob_tag, hbit_redeem_secret, hbit, herc20, revealed>>
    /\ BobKeeps

\* Mutant: the failed watch carries the NoRefund context
BobWatchForRedeemedFailsNoRefund == BobFails("watch_for_redeemed", "NoRefund")

BobWatchForRedeemedFails == BobFails("watch_for_redeemed", "ShouldRefund")

\* Mutant: Bob redeems hbit with a secret of his own
BobExecuteRedeemOwnSecret ==
    /\ bob_pc = "execute_redeem"
    /\ hbit = "funded"
    /\ hbit' = "redeemed"
    /\ hbit_redeem_secret' = Some("another secret")
    /\ bob_pc' = "refund_if_necessary"
    /\ bob_tag' = "Ok"
    /\ UNCHANGED <<bob_secret, herc20, revealed>>
    /\ BobKeeps

\* bob.execute_redeem(hbit_params, hbit_funded, herc20_redeemed.secret), then Ok(())
BobExecuteRedeem ==
    /\ bob_pc = "execute_redeem"
    /\ hbit = "funded"
    /\ bob_secret = Some(TheSecret)
    /\ hbit' = "redeemed"
    /\ hbit_redeem_secret' = bob_secret
    /\ bob_pc' = "refund_if_necessary"
    /\ bob_tag' = "Ok"
    /\ UNCHANGED <<bob_secret, herc20, revealed>>
    /\ BobKeeps

BobExecuteRedeemFails == BobFails("execute_redeem", "NoRefund")

\* herc20::refund_if_necessary on Ok or Err(NoRefund): returns the result
BobReturns ==
    /\ bob_pc = "refund_if_necessary"
    /\ bob_tag \in {"Ok", "NoRefund"}
    /\ bob_pc' = "done"
    /\ UNCHANGED <<bob_tag, bob_secret, hbit_redeem_secret, hbit, herc20, revealed>>
    /\ BobKeeps

\* herc20::refund_if_necessary on Err(ShouldRefund): execute_refund once herc20 has expired
BobExecuteRefund ==
    /\ bob_pc = "refund_if_necessary"
    /\ bob_tag = "ShouldRefund"
    /\ Herc20Expired
    /\ herc20 = "funded"
    /\ herc20' = "refunded"
    /\ bob_pc' = "done"
    /\ UNCHANGED <<bob_tag, bob_secret, hbit_redeem_secret, hbit, revealed>>
    /\ BobKeeps

\* Chain time passes
Tick ==
    /\ now < MaxTime
    /\ now' = now + 1
    /\ UNCHANGED <<alice_pc, alice_tag, bob_pc, bob_tag, bob_secret, hbit, herc20,
                   revealed, hbit_expiry, herc20_expiry, hbit_redeem_secret>>

SwapInit ==
    /\ alice_pc = "execute_fund" /\ alice_tag = "none"
    /\ bob_pc = "watch_for_funded" /\ bob_tag = "none" /\ bob_secret = None
    /\ hbit = "none" /\ herc20 = "none" /\ revealed = None /\ hbit_redeem_secret = None
    /\ now = 0
    /\ hbit_expiry \in Expiries
    /\ herc20_expiry \in Expiries
    \* no Maker is modelled here
    /\ maker = None /\ panicked = FALSE /\ last = None /\ live = {} /\ finished = {}
    /\ NoEthereum

SwapNext ==
    \/ AliceExecuteFund /\ UNCHANGED <<makerVars, ethVars>>
    \/ AliceExecuteFundFails /\ UNCHANGED <<makerVars, ethVars>>
    \/ AliceWatchForDeployed /\ UNCHANGED <<makerVars, ethVars>>
    \/ AliceWatchForDeployedFails /\ UNCHANGED <<makerVars, ethVars>>
    \/ AliceWatchForFunded /\ UNCHANGED <<makerVars, ethVars>>
    \/ AliceWatchForFundedFails /\ UNCHANGED <<makerVars, ethVars>>
    \/ AliceExecuteRedeem /\ UNCHANGED <<makerVars, ethVars>>
    \/ AliceExecuteRedeemFails /\ UNCHANGED <<makerVars, ethVars>>
    \/ AliceReturns /\ UNCHANGED <<makerVars, ethVars>>
    \/ AliceExecuteRefund /\ UNCHANGED <<makerVars, ethVars>>
    \/ BobWatchForFunded /\ UNCHANGED <<makerVars, ethVars>>
    \/ BobWatchForFundedFails /\ UNCHANGED <<makerVars, ethVars>>
    \/ BobExecuteDeploy /\ UNCHANGED <<makerVars, ethVars>>
    \/ BobExecuteDeployFails /\ UNCHANGED <<makerVars, ethVars>>
    \/ BobExecuteFund /\ UNCHANGED <<makerVars, ethVars>>
    \/ BobExecuteFundFails /\ UNCHANGED <<makerVars, ethVars>>
    \/ BobWatchForRedeemed /\ UNCHANGED <<makerVars, ethVars>>
    \/ BobWatchForRedeemedFails /\ UNCHANGED <<makerVars, ethVars>>
    \/ BobExecuteRedeem /\ UNCHANGED <<makerVars, ethVars>>
    \/ BobExecuteRedeemFails /\ UNCHANGED <<makerVars, ethVars>>
    \/ BobReturns /\ UNCHANGED <<makerVars, ethVars>>
    \/ BobExecuteRefund /\ UNCHANGED <<makerVars, ethVars>>
    \/ Tick /\ UNCHANGED <<makerVars, ethVars>>

SwapSpec == SwapInit /\ [][SwapNext]_vars

\* The same swap with its scheduling: chain time passes, and a protocol that waits in
\* refund_if_necessary for an expired, still funded HTLC gets to refund it.
SwapFairSpec ==
    /\ SwapInit /\ [][SwapNext]_vars
    /\ WF_vars(Tick /\ UNCHANGED <<makerVars, ethVars>>)
    /\ WF_vars(AliceExecuteRefund /\ UNCHANGED <<makerVars, ethVars>>)
    /\ WF_vars(BobExecuteRefund /\ UNCHANGED <<makerVars, ethVars>>)

----------------------------------------------------------------------------
(* SwapFundingSpec: the same swap, where the funding of hbit may pay another amount
   than the one agreed *)

SwapFundingNext ==
    \/ AliceExecuteFund /\ UNCHANGED <<makerVars, ethVars>>
    \/ AliceExecuteFundFails /\ UNCHANGED <<makerVars, ethVars>>
    \/ AliceWatchForDeployed /\ UNCHANGED <<makerVars, ethVars>>
    \/ AliceWatchForDeployedFails /\ UNCHANGED <<makerVars, ethVars>>
    \/ AliceWatchForFunded /\ UNCHANGED <<makerVars, ethVars>>
    \/ AliceWatchForFundedFails /\ UNCHANGED <<makerVars, ethVars>>
    \/ AliceExecuteRedeem /\ UNCHANGED <<makerVars, ethVars>>
    \/ AliceExecuteRedeemFails /\ UNCHANGED <<makerVars, ethVars>>
    \/ AliceReturns /\ UNCHANGED <<makerVars, ethVars>>
    \/ AliceExecuteRefund /\ UNCHANGED <<makerVars, ethVars>>
    \/ BobWatchForFunded /\ UNCHANGED <<makerVars, ethVars>>
    \/ BobWatchForFundedFails /\ UNCHANGED <<makerVars, ethVars>>
    \/ BobExecuteDeploy /\ UNCHANGED <<makerVars, ethVars>>
    \/ BobExecuteDeployFails /\ UNCHANGED <<makerVars, ethVars>>
    \/ BobExecuteFund /\ UNCHANGED <<makerVars, ethVars>>
    \/ BobExecuteFundFails /\ UNCHANGED <<makerVars, ethVars>>
    \/ BobWatchForRedeemed /\ UNCHANGED <<makerVars, ethVars>>
    \/ BobWatchForRedeemedFails /\ UNCHANGED <<makerVars, ethVars>>
    \/ BobExecuteRedeem /\ UNCHANGED <<makerVars, ethVars>>
    \/ BobExecuteRedeemFails /\ UNCHANGED <<makerVars, ethVars>>
    \/ BobReturns /\ UNCHANGED <<makerVars, ethVars>>
    \/ BobExecuteRefund /\ UNCHANGED <<makerVars, ethVars>>
    \/ Tick /\ UNCHANGED <<makerVars, ethVars>>
    \/ AliceExecuteFundIncorrectly /\ UNCHANGED <<makerVars, ethVars>>
    \/ BobWatchForFundedIncorrectly /\ UNCHANGED <<makerVars, ethVars>>

SwapFundingSpec == SwapInit /\ [][SwapFundingNext]_vars

----------------------------------------------------------------------------
(* MakerBobSpec: the Maker trades as Bob.  A Buy order that process_taken_order  *)
(* accepts starts an hbit -> herc20 swap against the taker (Alice); when          *)
(* hbit_herc20_bob has returned, the Maker is told to free the order's funds.     *)
(* One taker sends the orders, so that one swap runs at a time.                   *)

BobOrders == {o \in Orders : o.position = "Buy" /\ o.taker = 0}

\* No swap is running
SwapIdle ==
    /\ alice_pc' = "idle" /\ alice_tag' = "none"
    /\ bob_pc' = "idle" /\ bob_tag' = "none" /\ bob_secret' = None
    /\ hbit' = "none" /\ herc20' = "none" /\ revealed' = None
    /\ now' = 0 /\ hbit_expiry' = 0 /\ herc20_expiry' = 0 /\ hbit_redeem_secret' = None

\* process_taken_order; on GoForSwap the swap of the order is started
StartSwap(order) ==
    /\ ProcessTakenOrder(order)
    /\ Accept(order)
    /\ IF process_taken_order(maker, order).ret = "GoForSwap"
       THEN /\ alice_pc' = "execute_fund" /\ alice_tag' = "none"
            /\ bob_pc' = "watch_for_funded" /\ bob_tag' = "none" /\ bob_secret' = None
            /\ hbit' = "none" /\ herc20' = "none" /\ revealed' = None
            /\ hbit_redeem_secret' = None
            /\ now' = 0
            /\ hbit_expiry' \in Expiries
            /\ herc20_expiry' \in Expiries
       ELSE UNCHANGED swapVars
    /\ UNCHANGED <<last, ethVars>>

\* hbit_herc20_bob has returned (Ok or Err): process_finished_swap for its order
FinishSwap ==
    /\ bob_pc = "done"
    /\ \E order \in live :
          /\ ProcessFinishedSwap(FreeOf(order), order.taker)
          /\ Finish(FreeOf(order), order.taker)
          /\ IF process_finished_swap(maker, FreeOf(order), order.taker).ret = "ok"
             THEN SwapIdle
             ELSE UNCHANGED swapVars
    /\ UNCHANGED <<last, ethVars>>

MakerBobNext ==
    \/ \E order \in BobOrders : StartSwap(order)
    \/ FinishSwap
    \/ \E balance \in Amounts :
          UpdateDaiBalance(balance) /\ UNCHANGED <<last, live, finished, swapVars, ethVars>>
    \/ AliceExecuteFund /\ UNCHANGED <<makerVars, ethVars>>
    \/ AliceExecuteFundFails /\ UNCHANGED <<makerVars, ethVars>>
    \/ AliceWatchForDeployed /\ UNCHANGED <<makerVars, ethVars>>
    \/ AliceWatchForDeployedFails /\ UNCHANGED <<makerVars, ethVars>>
    \/ AliceWatchForFunded /\ UNCHANGED <<makerVars, ethVars>>
    \/ AliceWatchForFundedFails /\ UNCHANGED <<makerVars, ethVars>>
    \/ AliceExecuteRedeem /\ UNCHANGED <<makerVars, ethVars>>
    \/ AliceExecuteRedeemFails /\ UNCHANGED <<makerVars, ethVars>>
    \/ AliceReturns /\ UNCHANGED <<makerVars, ethVars>>
    \/ AliceExecuteRefund /\ UNCHANGED <<makerVars, ethVars>>
    \/ BobWatchForFunded /\ UNCHANGED <<makerVars, ethVars>>
    \/ BobWatchForFundedFails /\ UNCHANGED <<makerVars, ethVars>>
    \/ BobExecuteDeploy /\ UNCHANGED <<makerVars, ethVars>>
    \/ BobExecuteDeployFails /\ UNCHANGED <<makerVars, ethVars>>
    \/ BobExecuteFund /\ UNCHANGED <<makerVars, ethVars>>
    \/ BobExecuteFundFails /\ UNCHANGED <<makerVars, ethVars>>
    \/ BobWatchForRedeemed /\ UNCHANGED <<makerVars, ethVars>>
    \/ BobWatchForRedeemedFails /\ UNCHANGED <<makerVars, ethVars>>
    \/ BobExecuteRedeem /\ UNCHANGED <<makerVars, ethVars>>
    \/ BobExecuteRedeemFails /\ UNCHANGED <<makerVars, ethVars>>
    \/ BobReturns /\ UNCHANGED <<makerVars, ethVars>>
    \/ BobExecuteRefund /\ UNCHANGED <<makerVars, ethVars>>
    \/ bob_pc /= "idle" /\ Tick /\ UNCHANGED <<makerVars, ethVars>>

\* The Maker's own tasks are scheduled: Bob's protocol takes the steps it can take,
\* chain time passes, and the finished swap is reported.  Nothing makes the taker act.
MakerBobSpec ==
    /\ MakerInit /\ [][MakerBobNext]_vars
    /\ WF_vars(bob_pc /= "idle" /\ Tick /\ UNCHANGED <<makerVars, ethVars>>)
    /\ WF_vars(BobWatchForFunded /\ UNCHANGED <<makerVars, ethVars>>)
    /\ WF_vars(BobExecuteDeploy /\ UNCHANGED <<makerVars, ethVars>>)
    /\ WF_vars(BobExecuteFund /\ UNCHANGED <<makerVars, ethVars>>)
    /\ WF_vars(BobWatchForRedeemed /\ UNCHANGED <<makerVars, ethVars>>)
    /\ WF_vars(BobExecuteRedeem /\ UNCHANGED <<makerVars, ethVars>>)
    /\ WF_vars(BobReturns /\ UNCHANGED <<makerVars, ethVars>>)
    /\ WF_vars(BobExecuteRefund /\ UNCHANGED <<makerVars, ethVars>>)
    /\ WF_vars(FinishSwap)

----------------------------------------------------------------------------
(* The Ethereum Wallet (src/src/ethereum/wallet.rs).  deploy_contract,           *)
(* send_transaction, transfer_dai and call_contract take &self and run the same   *)
(* sequence of awaits: assert_chain, get_transaction_count, gas_price, (gas_limit  *)
(* for a send_transaction without one), sign, send_raw_transaction, sleep.  Two     *)
(* callers use one Wallet; every await is a point where the other caller may run.  *)

MaxSent == 2

Callers == {1, 2}

SendingOps == {"deploy_contract", "send_transaction", "transfer_dai", "call_contract"}

\* The chain the node is on, and another one
NodeChainId == "mainnet"

ChainIds == {"mainnet", "ropsten"}

NoCall == [op |-> "none", pc |-> "idle", chain_id |-> "none", estimates |-> FALSE,
           nonce |-> None, ret |-> None]

Ok(v) == [kind |-> "Ok", value |-> v]

Err(e) == [kind |-> "Err", err |-> e]

\* The call of caller c ends with `ret`
Returns(c, ret) == calls' = [calls EXCEPT ![c].pc = "returned", ![c].ret = Some(ret)]

\* The call of caller c goes on at `pc`
GoesTo(c, pc) == calls' = [calls EXCEPT ![c].pc = pc]

\* A caller enters one of the four operations; estimates: send_transaction without a
\* gas_limit
StartCall(c, op, chain_id, estimates) ==
    /\ calls[c].pc \in {"idle", "returned"}
    /\ Len(sent) < MaxSent
    /\ estimates => op = "send_transaction"
    /\ calls' = [calls EXCEPT ![c] = [op |-> op, pc |-> "assert_chain",
                                      chain_id |-> chain_id, estimates |-> estimates,
                                      nonce |-> None, ret |-> None]]
    /\ UNCHANGED <<sent, mined>>

\* Mutant: the chain ids are not compared
AssertChainAccepts(c) ==
    /\ calls[c].pc = "assert_chain"
    /\ GoesTo(c, "get_transaction_count")
    /\ UNCHANGED <<sent, mined>>

\* self.assert_chain(chain_id).await?
AssertChain(c) ==
    /\ calls[c].pc = "assert_chain"
    /\ IF calls[c].chain_id /= NodeChainId
       THEN Returns(c, Err("Wrong chain_id"))
       ELSE GoesTo(c, "get_transaction_count")
    /\ UNCHANGED <<sent, mined>>

\* let nonce = self.get_transaction_count().await?; the node counts the account's
\* transactions in its latest block or with the pending ones
GetTransactionCount(c) ==
    /\ calls[c].pc = "get_transaction_count"
    /\ \E count \in {mined, Len(sent)} :
          calls' = [calls EXCEPT ![c].pc = "gas_price", ![c].nonce = Some(count)]
    /\ UNCHANGED <<sent, mined>>

\* let gas_price = self.gas_price().await?
GasPrice(c) ==
    /\ calls[c].pc = "gas_price"
    /\ GoesTo(c, IF calls[c].estimates THEN "gas_limit" ELSE "send_raw_transaction")
    /\ UNCHANGED <<sent, mined>>

\* self.gas_limit(EstimateGasRequest { .. }).await?
GasLimit(c) ==
    /\ calls[c].pc = "gas_limit"
    /\ GoesTo(c, "send_raw_transaction")
    /\ UNCHANGED <<sent, mined>>

\* transaction.sign(..) with the nonce read, then send_raw_transaction; the node takes
\* the transaction when its nonce is the account's next one
SendRawTransaction(c) ==
    /\ calls[c].pc = "send_raw_transaction"
    /\ IF Unwrap(calls[c].nonce) = Len(sent)
       THEN /\ sent' = Append(sent, [nonce |-> Unwrap(calls[c].nonce), by |-> c])
            /\ GoesTo(c, "sleep")
       ELSE /\ Returns(c, Err("send_raw_transaction"))
            /\ UNCHANGED sent
    /\ UNCHANGED mined

\* std::thread::sleep(2000 ms); Ok(hash)
Sleep(c) ==
    /\ calls[c].pc = "sleep"
    /\ Returns(c, Ok(Unwrap(calls[c].nonce) + 1))
    /\ UNCHANGED <<sent, mined>>

\* A request to the node fails: `?` ends the call
NodeFails(c) ==
    /\ calls[c].pc \in {"assert_chain", "get_transaction_count", "gas_price", "gas_limit",
                        "send_raw_transaction"}
    /\ Returns(c, Err(calls[c].pc))
    /\ UNCHANGED <<sent, mined>>

\* The next transaction the node holds enters a block
MineTransaction ==
    /\ mined < Len(sent)
    /\ mined' = mined + 1
    /\ UNCHANGED <<calls, sent>>

WalletInit ==
    /\ calls = [c \in Callers |-> NoCall]
    /\ sent = <<>>
    /\ mined = 0
    \* no Maker, no swap and no watcher are modelled here
    /\ maker = None /\ panicked = FALSE /\ last = None /\ live = {} /\ finished = {}
    /\ alice_pc = "idle" /\ alice_tag = "none"
    /\ bob_pc = "idle" /\ bob_tag = "none" /\ bob_secret = None
    /\ hbit = "none" /\ herc20 = "none" /\ revealed = None
    /\ now = 0 /\ hbit_expiry = 0 /\ herc20_expiry = 0 /\ hbit_redeem_secret = None
    /\ block = None /\ target_mined = FALSE
    /\ watcher_pc = "idle" /\ latest_block = None /\ tx_index = 0
    /\ receipts_fetched = {} /\ receipts_failed = {} /\ answered = "none"
    /\ watcher_result = None /\ start_time = None

WalletNext ==
    \/ \E c \in Callers, op \in SendingOps, chain_id \in ChainIds, estimates \in BOOLEAN :
          StartCall(c, op, chain_id, estimates) /\ UNCHANGED <<makerVars, swapVars, watcherVars>>
    \/ \E c \in Callers : AssertChain(c) /\ UNCHANGED <<makerVars, swapVars, watcherVars>>
    \/ \E c \in Callers : GetTransactionCount(c) /\ UNCHANGED <<makerVars, swapVars, watcherVars>>
    \/ \E c \in Callers : GasPrice(c) /\ UNCHANGED <<makerVars, swapVars, watcherVars>>
    \/ \E c \in Callers : GasLimit(c) /\ UNCHANGED <<makerVars, swapVars, watcherVars>>
    \/ \E c \in Callers : SendRawTransaction(c) /\ UNCHANGED <<makerVars, swapVars, watcherVars>>
    \/ \E c \in Callers : Sleep(c) /\ UNCHANGED <<makerVars, swapVars, watcherVars>>
    \/ \E c \in Callers : NodeFails(c) /\ UNCHANGED <<makerVars, swapVars, watcherVars>>
    \/ MineTransaction /\ UNCHANGED <<makerVars, swapVars, watcherVars>>

WalletSpec == WalletInit /\ [][WalletNext]_vars

----------------------------------------------------------------------------
(* The Ethereum watcher (src/cnd/src/btsieve/ethereum/mod.rs): matching_transaction *)
(* polls the connector for the latest block, skips it if the pattern allows, and    *)
(* otherwise asks for the receipt of each of its transactions in turn, returning    *)
(* the first transaction that matches the pattern.  The chain grows while the       *)
(* watcher runs; the connector answers a request or fails.                          *)

MaxBlocks == 3

MaxTxs == 3

\* The transactions of a block, each with the value of pattern.matches for it and its
\* receipt
TxLists == UNION {[1..n -> BOOLEAN] : n \in 0..MaxTxs}

HasMatch(txs) == \E i \in DOMAIN txs : txs[i]

\* The blocks of a height; skip is the value of pattern.can_skip_block, which is only
\* true of a block without a matching transaction
BlocksAt(number) ==
    {b \in [number : {number}, skip : BOOLEAN, txs : TxLists] : b.skip => ~HasMatch(b.txs)}

\* _timestamp: Option<u32>; a block's number stands for its timestamp
StartTimes == {None} \cup {Some(t) : t \in 1..MaxBlocks}

\* The answers of a connector that has nothing to deliver
Failures == {"None", "Err"}

WatcherKeeps == UNCHANGED <<block, target_mined, start_time>>

\* A block is mined on top of the latest one
Mine ==
    /\ block.number < MaxBlocks
    /\ \E b \in BlocksAt(block.number + 1) :
          /\ block' = b
          /\ target_mined' = (target_mined \/ HasMatch(b.txs))
    /\ UNCHANGED <<watcher_pc, latest_block, tx_index, receipts_fetched, receipts_failed,
                   answered, watcher_result, start_time>>

\* Delay::new(now + 1 s) at the top of the loop
Delay ==
    /\ watcher_pc = "delay"
    /\ watcher_pc' = "latest_block"
    /\ latest_block' = None
    /\ tx_index' = 0
    /\ receipts_fetched' = {}
    /\ receipts_failed' = {}
    /\ answered' = "none"
    /\ UNCHANGED watcher_result
    /\ WatcherKeeps

\* blockchain_connector.latest_block(): Ok(Some(block))
LatestBlock ==
    /\ watcher_pc = "latest_block"
    /\ latest_block' = Some(block)
    /\ answered' = "Some"
    /\ watcher_pc' = "can_skip_block"
    /\ UNCHANGED <<tx_index, receipts_fetched, receipts_failed, watcher_result>>
    /\ WatcherKeeps

\* Mutant: a connector that cannot deliver the latest block ends the watcher
LatestBlockFailsReturnsErr ==
    /\ watcher_pc = "latest_block"
    /\ \E answer \in Failures : answered' = answer
    /\ watcher_pc' = "returned"
    /\ watcher_result' = Some(Err("latest_block"))
    /\ UNCHANGED <<latest_block, tx_index, receipts_fetched, receipts_failed>>
    /\ WatcherKeeps

\* blockchain_connector.latest_block(): Ok(None) or Err(e), then continue
LatestBlockFails ==
    /\ watcher_pc = "latest_block"
    /\ \E answer \in Failures : answered' = answer
    /\ watcher_pc' = "delay"
    /\ UNCHANGED <<latest_block, tx_index, receipts_fetched, receipts_failed, watcher_result>>
    /\ WatcherKeeps

\* Mutant: the block is scanned whatever the pattern says
CanSkipBlockNever ==
    /\ watcher_pc = "can_skip_block"
    /\ IF Unwrap(latest_block).txs = <<>>
       THEN watcher_pc' = "delay" /\ UNCHANGED tx_index
       ELSE watcher_pc' = "receipt_by_hash" /\ tx_index' = 1
    /\ UNCHANGED <<latest_block, receipts_fetched, receipts_failed, answered, watcher_result>>
    /\ WatcherKeeps

\* if pattern.can_skip_block(&latest_block) { continue }, else the for loop begins
CanSkipBlock ==
    /\ watcher_pc = "can_skip_block"
    /\ IF Unwrap(latest_block).skip \/ Unwrap(latest_block).txs = <<>>
       THEN watcher_pc' = "delay" /\ UNCHANGED tx_index
       ELSE watcher_pc' = "receipt_by_hash" /\ tx_index' = 1
    /\ UNCHANGED <<latest_block, receipts_fetched, receipts_failed, answered, watcher_result>>
    /\ WatcherKeeps

\* The for loop goes to the next transaction, or ends and the outer loop goes round
NextTransaction ==
    IF tx_index < Len(Unwrap(latest_block).txs)
    THEN watcher_pc' = "receipt_by_hash" /\ tx_index' = tx_index + 1
    ELSE watcher_pc' = "delay" /\ UNCHANGED tx_index

\* Mutant: the transaction is returned without asking the pattern
ReceiptByHashYieldsUnchecked ==
    /\ watcher_pc = "receipt_by_hash"
    /\ receipts_fetched' = receipts_fetched \cup {tx_index}
    /\ answered' = "Some"
    /\ watcher_result' = Some(Ok([number |-> Unwrap(latest_block).number,
                                  index |-> tx_index]))
    /\ watcher_pc' = "returned"
    /\ UNCHANGED <<tx_index, latest_block, receipts_failed>>
    /\ WatcherKeeps

\* Mutant: a match is yielded and the loop goes on
ReceiptByHashYieldsAndGoesOn ==
    /\ watcher_pc = "receipt_by_hash"
    /\ receipts_fetched' = receipts_fetched \cup {tx_index}
    /\ answered' = "Some"
    /\ watcher_result' = IF Unwrap(latest_block).txs[tx_index]
                         THEN Some(Ok([number |-> Unwrap(latest_block).number,
                                       index |-> tx_index]))
                         ELSE watcher_result
    /\ NextTransaction
    /\ UNCHANGED <<latest_block, receipts_failed>>
    /\ WatcherKeeps

\* receipt_by_hash(transaction.hash): Ok(Some(receipt)), then pattern.matches
ReceiptByHash ==
    /\ watcher_pc = "receipt_by_hash"
    /\ receipts_fetched' = receipts_fetched \cup {tx_index}
    /\ answered' = "Some"
    /\ IF Unwrap(latest_block).txs[tx_index]
       THEN /\ watcher_result' = Some(Ok([number |-> Unwrap(latest_block).number,
                                          index |-> tx_index]))
            /\ watcher_pc' = "returned"
            /\ UNCHANGED tx_index
       ELSE /\ NextTransaction
            /\ UNCHANGED watcher_result
    /\ UNCHANGED <<latest_block, receipts_failed>>
    /\ WatcherKeeps

\* Mutant: a receipt that is not delivered ends the scan of the block
ReceiptByHashFailsEndsBlock ==
    /\ watcher_pc = "receipt_by_hash"
    /\ receipts_fetched' = receipts_fetched \cup {tx_index}
    /\ receipts_failed' = receipts_failed \cup {tx_index}
    /\ \E answer \in Failures : answered' = answer
    /\ watcher_pc' = "delay"
    /\ UNCHANGED <<latest_block, tx_index, watcher_result>>
    /\ WatcherKeeps

\* receipt_by_hash(transaction.hash): Ok(None) or Err(e), then continue
ReceiptByHashFails ==
    /\ watcher_pc = "receipt_by_hash"
    /\ receipts_fetched' = receipts_fetched \cup {tx_index}
    /\ receipts_failed' = receipts_failed \cup {tx_index}
    /\ \E answer \in Failures : answered' = answer
    /\ NextTransaction
    /\ UNCHANGED <<latest_block, watcher_result>>
    /\ WatcherKeeps

\* The watcher is started on a chain that does not hold the transaction yet
WatcherInit ==
    /\ block \in {b \in BlocksAt(1) : ~HasMatch(b.txs)}
    /\ target_mined = FALSE
    /\ watcher_pc = "delay"
    /\ latest_block = None
    /\ tx_index = 0
    /\ receipts_fetched = {}
    /\ receipts_failed = {}
    /\ answered = "none"
    /\ watcher_result = None
    /\ start_time \in StartTimes
    \* no Maker, no swap and no Wallet are modelled here
    /\ maker = None /\ panicked = FALSE /\ last = None /\ live = {} /\ finished = {}
    /\ alice_pc = "idle" /\ alice_tag = "none"
    /\ bob_pc = "idle" /\ bob_tag = "none" /\ bob_secret = None
    /\ hbit = "none" /\ herc20 = "none" /\ revealed = None
    /\ now = 0 /\ hbit_expiry = 0 /\ herc20_expiry = 0 /\ hbit_redeem_secret = None
    /\ calls = None /\ sent = <<>> /\ mined = 0

WatcherNext ==
    \/ Mine /\ UNCHANGED <<makerVars, swapVars, walletVars>>
    \/ Delay /\ UNCHANGED <<makerVars, swapVars, walletVars>>
    \/ LatestBlock /\ UNCHANGED <<makerVars, swapVars, walletVars>>
    \/ LatestBlockFails /\ UNCHANGED <<makerVars, swapVars, walletVars>>
    \/ CanSkipBlock /\ UNCHANGED <<makerVars, swapVars, walletVars>>
    \/ ReceiptByHash /\ UNCHANGED <<makerVars, swapVars, walletVars>>
    \/ ReceiptByHashFails /\ UNCHANGED <<makerVars, swapVars, walletVars>>

WatcherSpec == WatcherInit /\ [][WatcherNext]_vars

\* The watcher's task is scheduled, and a connector that is asked again and again
\* answers in the end.  Nothing paces the chain.
WatcherFairSpec ==
    /\ WatcherInit /\ [][WatcherNext]_vars
    /\ WF_vars(Delay /\ UNCHANGED <<makerVars, swapVars, walletVars>>)
    /\ SF_vars(LatestBlock /\ UNCHANGED <<makerVars, swapVars, walletVars>>)
    /\ WF_vars(CanSkipBlock /\ UNCHANGED <<makerVars, swapVars, walletVars>>)
    /\ SF_vars(ReceiptByHash /\ UNCHANGED <<makerVars, swapVars, walletVars>>)

----------------------------------------------------------------------------
(* Properties of the swap, checked under SwapSpec *)

BothReturned == alice_pc = "done" /\ bob_pc = "done"

----------------------------------------------------------------------------
(* Properties of the Maker, checked under MakerSpec: the last call             *)

IsCall(op) == last.op = op

\* The claimed unprofitability of an order at mid-market rate `mid` and spread
\* `bps`: Buy and quote/base > mid * (1 - s), or Sell and quote/base < mid * (1 + s)
Unprofitable(mid, bps, order) ==
    \/ /\ order.position = "Buy"
       /\ order.quote * TenThousand > mid * (TenThousand - bps) * order.base
    \/ /\ order.position = "Sell"
       /\ order.quote * TenThousand < mid * (TenThousand + bps) * order.base

\* The balance process_taken_order needs for the order's side
NeededBalance(m, order) ==
    IF order.position = "Buy" THEN m.dai_balance ELSE m.btc_balance

\* C2: process_taken_order for a taker that is in ongoing_takers returns
\* CannotTradeWithTaker, whatever the rate and the balances are (also when they are
\* absent), and changes nothing; so GoForSwap is never returned for such a taker.
C2_OngoingTakerRejected ==
    (IsCall("process_taken_order") /\ last.arg.taker \in last.pre.ongoing_takers)
        => (last.ret = "CannotTradeWithTaker" /\ maker = last.pre)

\* C2 witness: an ongoing taker was rejected while the rate was absent
C2_Witness ==
    /\ IsCall("process_taken_order")
    /\ last.arg.taker \in last.pre.ongoing_takers
    /\ last.pre.mid_market_rate = None
    /\ last.ret = "CannotTradeWithTaker"

\* C3: for a taker with no ongoing trade, rate present, order rate profitable and
\* the needed balance present, process_taken_order returns InsufficientFunds exactly
\* when new_reserved > balance (new_reserved = dai_reserved + quote for Buy,
\* btc_reserved + base + btc_fee for Sell), and otherwise returns GoForSwap with
\* new_reserved stored as that side's reserved pool.
C3_ReservationDecision ==
    (/\ IsCall("process_taken_order")
     /\ last.arg.taker \notin last.pre.ongoing_takers
     /\ IsSome(last.pre.mid_market_rate)
     /\ ~Unprofitable(Unwrap(last.pre.mid_market_rate), last.pre.spread, last.arg)
     /\ IsSome(NeededBalance(last.pre, last.arg)))
        => LET order == last.arg
               new_reserved ==
                   IF order.position = "Buy"
                   THEN last.pre.dai_reserved_funds + order.quote
                   ELSE last.pre.btc_reserved_funds + order.base + last.pre.btc_fee
               balance == Unwrap(NeededBalance(last.pre, order))
               stored == IF order.position = "Buy"
                         THEN maker.dai_reserved_funds
                         ELSE maker.btc_reserved_funds
           IN  /\ (last.ret = "InsufficientFunds") <=> (new_reserved > balance)
               /\ (new_reserved <= balance) => (last.ret = "GoForSwap" /\ stored = new_reserved)

\* C3 witness: a Sell order was accepted by a maker with a fee and the fee was reserved
C3_Witness ==
    /\ IsCall("process_taken_order")
    /\ last.arg.position = "Sell"
    /\ last.ret = "GoForSwap"
    /\ last.pre.btc_fee = 1
    /\ maker.btc_reserved_funds = last.pre.btc_reserved_funds + last.arg.base + 1

C5_FinishRestoresReserved ==
    (IsCall("process_finished_swap") /\ IsSome(last.before))
        => /\ last.ret = "ok"
           /\ maker.btc_reserved_funds = Unwrap(last.before).btc_reserved_funds
           /\ maker.dai_reserved_funds = Unwrap(last.before).dai_reserved_funds

\* C5 witness: an accepted Sell order of a maker with a fee was finished
C5_Witness ==
    /\ IsCall("process_finished_swap")
    /\ IsSome(last.before)
    /\ last.arg.free.kind = "Btc"
    /\ last.pre.btc_fee = 1
    /\ last.pre.btc_reserved_funds > maker.btc_reserved_funds

\* C6: the reserved pools are never negative
C6_ReservedNonNegative ==
    maker.btc_reserved_funds >= 0 /\ maker.dai_reserved_funds >= 0

\* C6 witness: process_finished_swap was asked to free more than is reserved
C6_Witness ==
    /\ IsCall("process_finished_swap")
    /\ last.arg.free.amount > last.pre.dai_reserved_funds
    /\ last.arg.free.amount + last.pre.btc_fee > last.pre.btc_reserved_funds

\* C10: a process_finished_swap that returns has subtracted amount + btc_fee from
\* btc_reserved_funds (Free::Btc) or amount from dai_reserved_funds (Free::Dai), left
\* the other pool alone and removed the taker from ongoing_takers.
C10_FinishedSwapEffect ==
    (IsCall("process_finished_swap") /\ last.ret = "ok")
        => LET free == last.arg.free
           IN  /\ free.kind = "Btc" =>
                    /\ maker.btc_reserved_funds =
                           last.pre.btc_reserved_funds - (free.amount + last.pre.btc_fee)
                    /\ maker.dai_reserved_funds = last.pre.dai_reserved_funds
               /\ free.kind = "Dai" =>
                    /\ maker.dai_reserved_funds = last.pre.dai_reserved_funds - free.amount
                    /\ maker.btc_reserved_funds = last.pre.btc_reserved_funds
               /\ maker.ongoing_takers = last.pre.ongoing_takers \ {last.arg.taker}

\* C10 witness: Free::Btc with a fee, for a taker that was ongoing
C10_Witness ==
    /\ IsCall("process_finished_swap")
    /\ last.ret = "ok"
    /\ last.arg.free.kind = "Btc"
    /\ last.arg.free.amount = 1
    /\ last.pre.btc_fee = 1
    /\ last.arg.taker \in last.pre.ongoing_takers
    /\ maker.btc_reserved_funds = last.pre.btc_reserved_funds - 2

----------------------------------------------------------------------------
(* Properties of the Maker, checked under MakerSwapsSpec: the live swaps       *)

open_sell_count == Cardinality({o \in live : o.position = "Sell"})

\* C7 as claimed: btc_reserved_funds + btc_fee * open sells <= btc_balance when known
C7_Original ==
    IsSome(maker.btc_balance)
        => maker.btc_reserved_funds + maker.btc_fee * open_sell_count
               <= Unwrap(maker.btc_balance)

\* C7 as amended: btc_reserved_funds (which already holds one btc_fee per accepted
\* Sell order) <= btc_balance holds right after every accepted Sell order, and every
\* step that leaves btc_balance as it is preserves it.
C7_BtcReservedWithinBalance ==
    [][/\ (\E o \in live' \ live : o.position = "Sell")
          => /\ IsSome(maker'.btc_balance)
             /\ maker'.btc_reserved_funds <= Unwrap(maker'.btc_balance)
       /\ (/\ IsSome(maker.btc_balance)
           /\ maker.btc_reserved_funds <= Unwrap(maker.btc_balance)
           /\ maker'.btc_balance = maker.btc_balance)
          => maker'.btc_reserved_funds <= Unwrap(maker'.btc_balance)]_vars

\* C7 witness: a Sell order is live and the reserved funds, fee included, use up the balance
C7_Witness ==
    /\ \E o \in live : o.position = "Sell"
    /\ maker.btc_fee = 1
    /\ IsSome(maker.btc_balance)
    /\ maker.btc_reserved_funds = Unwrap(maker.btc_balance)

\* C8 as claimed: dai_reserved_funds <= dai_balance when known
C8_Original ==
    IsSome(maker.dai_balance) => maker.dai_reserved_funds <= Unwrap(maker.dai_balance)

\* C8 as amended: dai_reserved_funds <= dai_balance holds right after every accepted
\* Buy order, and every step that leaves dai_balance as it is preserves it.
C8_DaiReservedWithinBalance ==
    [][/\ (\E o \in live' \ live : o.position = "Buy")
          => /\ IsSome(maker'.dai_balance)
             /\ maker'.dai_reserved_funds <= Unwrap(maker'.dai_balance)
       /\ (/\ IsSome(maker.dai_balance)
           /\ maker.dai_reserved_funds <= Unwrap(maker.dai_balance)
           /\ maker'.dai_balance = maker.dai_balance)
          => maker'.dai_reserved_funds <= Unwrap(maker'.dai_balance)]_vars

\* C8 witness: a Buy order is live and its quote uses up the balance
C8_Witness ==
    /\ \E o \in live : o.position = "Buy" /\ o.quote = maker.dai_reserved_funds
    /\ IsSome(maker.dai_balance)
    /\ maker.dai_reserved_funds = Unwrap(maker.dai_balance)

\* C9: ongoing_takers holds exactly the takers of the accepted swaps that no
\* process_finished_swap has finished
C9_OngoingIffLive ==
    maker.ongoing_takers = {o.taker : o \in live}

\* C9 witness: one taker's swap was finished while the other's is still live
C9_Witness ==
    /\ Cardinality(live) = 1
    /\ \E t \in finished : t \notin maker.ongoing_takers
    /\ maker.ongoing_takers /= {}

----------------------------------------------------------------------------
(* Properties of the rate and balance feeds, checked under MakerSpec           *)

\* Whether BtcDaiOrder::new_sell / new_buy can build an order from Maker m
SellFundsCover(m) ==
    IsSome(m.btc_balance) /\ Unwrap(m.btc_balance) >= m.btc_reserved_funds + m.btc_fee

BuyFundsCover(m) ==
    IsSome(m.dai_balance) /\ Unwrap(m.dai_balance) >= m.dai_reserved_funds

\* C12: update_rate with the stored rate returns None and changes nothing; and
\* every update_rate(r) leaves r stored, so that update_rate(r) called again
\* returns None.
C12_SameRateNoChange ==
    IsCall("update_rate")
        => /\ (last.pre.mid_market_rate = Some(last.arg))
                => (last.ret = [kind |-> "None"] /\ maker = last.pre)
           /\ maker.mid_market_rate = Some(last.arg)
           /\ update_rate(maker, last.arg) = [m |-> maker, ret |-> [kind |-> "None"]]

\* C12 witness: update_rate was called with the stored rate and returned None
C12_Witness ==
    /\ IsCall("update_rate")
    /\ last.pre.mid_market_rate = Some(last.arg)
    /\ last.ret = [kind |-> "None"]
    /\ maker = last.pre

BalanceOf(m, op) ==
    IF op = "update_bitcoin_balance" THEN m.btc_balance ELSE m.dai_balance

WithBalance(m, op, balance) ==
    IF op = "update_bitcoin_balance"
    THEN [m EXCEPT !.btc_balance = Some(balance)]
    ELSE [m EXCEPT !.dai_balance = Some(balance)]

FundsCover(m, op) ==
    IF op = "update_bitcoin_balance" THEN SellFundsCover(m) ELSE BuyFundsCover(m)

PositionOf(op) == IF op = "update_bitcoin_balance" THEN "Sell" ELSE "Buy"

IsBalanceUpdate == last.op \in {"update_bitcoin_balance", "update_dai_balance"}

\* C14 as claimed (an order that the funds cannot cover aside): a balance update with a
\* balance that is not the stored one stores it and returns a new order of its side.
C14_Original ==
    (IsBalanceUpdate /\ BalanceOf(last.pre, last.op) /= Some(last.arg))
        => /\ maker = WithBalance(last.pre, last.op, last.arg)
           /\ FundsCover(maker, last.op)
                => (last.ret.kind = "Some"
                    /\ last.ret.orders[1].position = PositionOf(last.op))

\* C14 as amended: with the stored balance the update returns None and changes nothing;
\* with another balance it stores the balance and changes nothing else, and returns
\* a new order of its side when the rate is present (and the funds cover an order), and
\* the error RateNotAvailable when the rate is absent.
C14_BalanceUpdate ==
    IsBalanceUpdate
        => IF BalanceOf(last.pre, last.op) = Some(last.arg)
           THEN last.ret = [kind |-> "None"] /\ maker = last.pre
           ELSE /\ maker = WithBalance(last.pre, last.op, last.arg)
                /\ IF ~IsSome(maker.mid_market_rate)
                   THEN last.ret = Err("RateNotAvailable")
                   ELSE /\ last.ret.kind \in {"Some", "Err"}
                        /\ FundsCover(maker, last.op) <=> (last.ret.kind = "Some")
                        /\ (last.ret.kind = "Some")
                             => /\ Len(last.ret.orders) = 1
                                /\ last.ret.orders[1].position = PositionOf(last.op)

\* C14 witness: a bitcoin balance update with the stored balance was a no-op while funds
\* were reserved
C14_Witness ==
    /\ last.op = "update_bitcoin_balance"
    /\ last.pre.btc_balance = Some(last.arg)
    /\ last.ret = [kind |-> "None"]
    /\ last.pre.btc_reserved_funds > 0

\* C15 as claimed: an absent rate makes new_sell_order, new_buy_order and
\* process_taken_order fail with RateNotAvailable, an absent balance makes the
\* order construction and process_taken_order of its side fail with
\* BalanceNotAvailable, and a failed process_taken_order changes nothing.
C15_Original ==
    /\ ~IsSome(maker.mid_market_rate)
          => /\ new_sell_order(maker) = [err |-> "RateNotAvailable"]
             /\ new_buy_order(maker) = [err |-> "RateNotAvailable"]
    /\ ~IsSome(maker.btc_balance)
          => new_sell_order(maker) = [err |-> "BalanceNotAvailable"]
    /\ ~IsSome(maker.dai_balance)
          => new_buy_order(maker) = [err |-> "BalanceNotAvailable"]
    /\ (IsCall("process_taken_order") /\ last.arg.taker \notin last.pre.ongoing_takers)
          => /\ ~IsSome(last.pre.mid_market_rate)
                   => (last.ret = "Err_RateNotAvailable" /\ maker = last.pre)
             /\ ~IsSome(NeededBalance(last.pre, last.arg))
                   => (last.ret = "Err_BalanceNotAvailable" /\ maker = last.pre)

\* C15 as amended: the absent rate is reported first; an absent balance is reported
\* as BalanceNotAvailable when the rate is present.
C15_FailsWhenInvalidated ==
    /\ ~IsSome(maker.mid_market_rate)
          => /\ new_sell_order(maker) = [err |-> "RateNotAvailable"]
             /\ new_buy_order(maker) = [err |-> "RateNotAvailable"]
    /\ (IsSome(maker.mid_market_rate) /\ ~IsSome(maker.btc_balance))
          => new_sell_order(maker) = [err |-> "BalanceNotAvailable"]
    /\ (IsSome(maker.mid_market_rate) /\ ~IsSome(maker.dai_balance))
          => new_buy_order(maker) = [err |-> "BalanceNotAvailable"]
    /\ (IsCall("process_taken_order") /\ last.arg.taker \notin last.pre.ongoing_takers)
          => /\ ~IsSome(last.pre.mid_market_rate)
                   => (last.ret = "Err_RateNotAvailable" /\ maker = last.pre)
             /\ (IsSome(last.pre.mid_market_rate)
                 /\ ~IsSome(NeededBalance(last.pre, last.arg)))
                   => (last.ret = "Err_BalanceNotAvailable" /\ maker = last.pre)

\* C15 witness: rate and bitcoin balance were both invalidated and a Sell order of a
\* taker with no ongoing trade failed with RateNotAvailable
C15_Witness ==
    /\ IsCall("process_taken_order")
    /\ last.arg.position = "Sell"
    /\ last.arg.taker \notin last.pre.ongoing_takers
    /\ last.pre.mid_market_rate = None
    /\ last.pre.btc_balance = None
    /\ last.ret = "Err_RateNotAvailable"

----------------------------------------------------------------------------
(* Properties of the failure handling of the swap, checked under SwapSpec and  *)
(* SwapFairSpec                                                                 *)

\* C17 as claimed: the hbit HTLC (funded first) is funded only when its expiry is
\* strictly later than the expiry of the herc20 HTLC
C17_Original ==
    hbit /= "none" => hbit_expiry > herc20_expiry

\* A step of the swap_result block failed in this transition
AliceFailedAt(steps) ==
    alice_pc \in steps /\ alice_pc' = "refund_if_necessary" /\ alice_tag' /= "Ok"

BobFailedAt(steps) ==
    bob_pc \in steps /\ bob_pc' = "refund_if_necessary" /\ bob_tag' /= "Ok"

\* C18 as claimed: a failure tagged ShouldRefund is followed by a final state in
\* which the stake of that tag is refunded on chain
C18_Original ==
    /\ (alice_tag = "ShouldRefund") ~> (alice_pc = "done" /\ hbit = "refunded")
    /\ (bob_tag = "ShouldRefund") ~> (bob_pc = "done" /\ herc20 = "refunded")

\* C18 as amended: a failure tagged ShouldRefund is followed by a final state in
\* which the stake is refunded, unless the counterparty redeems the stake first (only
\* Bob's herc20 stake can be redeemed after his failure: Alice holds the secret).
C18_RefundUnlessRedeemed ==
    /\ (alice_tag = "ShouldRefund") ~> (alice_pc = "done" /\ hbit = "refunded")
    /\ (bob_tag = "ShouldRefund")
          ~> ((bob_pc = "done" /\ herc20 = "refunded") \/ herc20 = "redeemed")

\* C18 witness: both protocols failed with ShouldRefund and both stakes were refunded
C18_Witness ==
    /\ alice_pc = "done" /\ alice_tag = "ShouldRefund" /\ hbit = "refunded"
    /\ bob_pc = "done" /\ bob_tag = "ShouldRefund" /\ herc20 = "refunded"

\* C19: a failure of Alice at watch_for_deployed, watch_for_funded or execute_redeem
\* carries ShouldRefund while hbit is funded, and Alice then returns only by refunding
\* hbit after its expiry; a failure of execute_fund carries NoRefund, and Alice
\* then returns leaving hbit as it is.
C19_AliceFailureTags ==
    [][/\ AliceFailedAt({"watch_for_deployed", "watch_for_funded", "execute_redeem"})
            => (alice_tag' = "ShouldRefund" /\ hbit' = "funded")
       /\ AliceFailedAt({"execute_fund"})
            => (alice_tag' = "NoRefund" /\ hbit' = "none")
       /\ (alice_pc = "refund_if_necessary" /\ alice_pc' = "done")
            => IF alice_tag = "ShouldRefund"
               THEN HbitExpired /\ hbit = "funded" /\ hbit' = "refunded"
               ELSE hbit' = hbit]_vars

\* C19 witness: Alice failed after funding and refunded hbit while herc20 was funded
C19_Witness ==
    /\ alice_pc = "done"
    /\ alice_tag = "ShouldRefund"
    /\ hbit = "refunded"
    /\ herc20 = "funded"

----------------------------------------------------------------------------
(* Properties of the published orders, checked under MakerPublishedSpec        *)

\* The order is priced at spread.apply(mid_market_rate, position) without rounding
PricedExactly(m, order) ==
    LET price == SpreadApply(m.spread, RateOf(Unwrap(m.mid_market_rate)), order.position)
    IN  order.quote * price[2] = order.base * price[1]

\* The published order was accepted and its amount was added to the reserved pool
PublishedOrderTaken ==
    /\ last.ret = "GoForSwap"
    /\ IF last.arg.position = "Sell"
       THEN /\ maker.btc_reserved_funds =
                   last.pre.btc_reserved_funds + last.arg.base + last.pre.btc_fee
            /\ maker.dai_reserved_funds = last.pre.dai_reserved_funds
       ELSE /\ maker.dai_reserved_funds = last.pre.dai_reserved_funds + last.arg.quote
            /\ maker.btc_reserved_funds = last.pre.btc_reserved_funds

----------------------------------------------------------------------------
(* Properties of the reservation of a swap, checked under MakerBobSpec         *)

\* The funds the accepted, unfinished swaps need
ReservedForLive == IF live = {} THEN 0 ELSE (CHOOSE o \in live : TRUE).quote

\* The reservation is there exactly while an accepted swap has not been reported
\* finished: allocated by GoForSwap only, released once, never twice.
ReservationFollowsSwap ==
    /\ ~panicked
    /\ Cardinality(live) <= 1
    /\ maker.dai_reserved_funds = ReservedForLive
    /\ maker.btc_reserved_funds = 0
    /\ maker.ongoing_takers = {o.taker : o \in live}
    /\ (live = {}) <=> (bob_pc = "idle")

----------------------------------------------------------------------------
(* C21: the secret of Bob's hbit redeem, checked under SwapSpec *)

\* C21: the secret in Bob's hbit redeem transaction is the one he took from the herc20
\* Redeemed event, which is the one the herc20 redeem transaction published; no hbit
\* redeem carries another secret
C21_RedeemsWithEventSecret ==
    /\ IsSome(bob_secret) => Herc20WasRedeemed /\ bob_secret = revealed
    /\ IsSome(hbit_redeem_secret) =>
          /\ hbit = "redeemed"
          /\ hbit_redeem_secret = bob_secret
          /\ hbit_redeem_secret = revealed
    /\ hbit = "redeemed" => IsSome(hbit_redeem_secret)

\* C21 witness: Bob has redeemed hbit with the secret of the Redeemed event and returned
C21_Witness ==
    /\ bob_pc = "done"
    /\ bob_tag = "Ok"
    /\ hbit = "redeemed"
    /\ revealed = Some(TheSecret)
    /\ hbit_redeem_secret = Some(TheSecret)

----------------------------------------------------------------------------
(* C26, C27, C28: the order of the steps, checked under SwapSpec *)

AliceSteps == <<"execute_fund", "watch_for_deployed", "watch_for_funded", "execute_redeem">>

BobSteps ==
    <<"watch_for_funded", "execute_deploy", "execute_fund", "watch_for_redeemed",
      "execute_redeem">>

StepsOf(steps) == {steps[i] : i \in DOMAIN steps}

StepIndex(steps, pc) == CHOOSE i \in DOMAIN steps : steps[i] = pc

\* A protocol that moves to a step comes from the step before it
InOrder(steps, pc, next) ==
    next \in StepsOf(steps) =>
        /\ pc \in StepsOf(steps)
        /\ StepIndex(steps, next) = StepIndex(steps, pc) + 1

\* C26: Alice's steps run in the order fund hbit, see herc20 deployed, see herc20 funded,
\* redeem herc20; the secret is published only by her execute_redeem, when hbit is
\* funded and herc20 is deployed and funded
C26_AliceStepsInOrder ==
    /\ [](alice_pc = "watch_for_deployed" => HbitWasFunded)
    /\ [](alice_pc = "watch_for_funded" => HbitWasFunded /\ Herc20WasDeployed)
    /\ [](alice_pc = "execute_redeem" =>
              HbitWasFunded /\ Herc20WasDeployed /\ Herc20WasFunded)
    /\ [][alice_pc' /= alice_pc => InOrder(AliceSteps, alice_pc, alice_pc')]_vars
    /\ [][revealed' /= revealed =>
              /\ alice_pc = "execute_redeem"
              /\ HbitWasFunded /\ Herc20WasDeployed /\ Herc20WasFunded]_vars

\* C26 witness: Alice has gone through her four steps and published the secret
C26_Witness ==
    /\ alice_pc = "refund_if_necessary"
    /\ alice_tag = "Ok"
    /\ herc20 = "redeemed"
    /\ revealed = Some(TheSecret)

\* C27: Bob's steps run in the order see hbit funded, deploy herc20, fund herc20, see
\* herc20 redeemed, redeem hbit; herc20 is deployed only when hbit is funded, funded only
\* when deployed, and hbit is redeemed only when herc20 is redeemed
C27_BobStepsInOrder ==
    /\ [](bob_pc = "execute_deploy" => HbitWasFunded)
    /\ [](bob_pc = "execute_fund" => HbitWasFunded /\ Herc20WasDeployed)
    /\ [](bob_pc = "watch_for_redeemed" => HbitWasFunded /\ Herc20WasFunded)
    /\ [](bob_pc = "execute_redeem" => HbitWasFunded /\ Herc20WasRedeemed)
    /\ [][bob_pc' /= bob_pc => InOrder(BobSteps, bob_pc, bob_pc')]_vars
    /\ [][herc20 = "none" /\ herc20' /= "none" =>
              bob_pc = "execute_deploy" /\ HbitWasFunded]_vars
    /\ [][herc20 = "deployed" /\ herc20' = "funded" => bob_pc = "execute_fund"]_vars
    /\ [][hbit' = "redeemed" /\ hbit /= "redeemed" =>
              bob_pc = "execute_redeem" /\ Herc20WasRedeemed]_vars

\* C27 witness: Bob has gone through his five steps and redeemed hbit
C27_Witness ==
    /\ bob_pc = "refund_if_necessary"
    /\ bob_tag = "Ok"
    /\ herc20 = "redeemed"
    /\ hbit = "redeemed"

\* C28: a failed step ends the sequence (the protocol is in refund_if_necessary or has
\* returned), its tag is never replaced, and an HTLC is refunded only by the party whose
\* failure was tagged ShouldRefund
C28_FirstFailureDecides ==
    /\ [](alice_tag /= "none" => alice_pc \in {"refund_if_necessary", "done"})
    /\ [](bob_tag /= "none" => bob_pc \in {"refund_if_necessary", "done"})
    /\ [][alice_tag /= "none" => alice_tag' = alice_tag]_vars
    /\ [][bob_tag /= "none" => bob_tag' = bob_tag]_vars
    /\ [][alice_pc = "refund_if_necessary" /\ alice_pc' /= alice_pc =>
              /\ alice_pc' = "done"
              /\ (hbit' /= hbit) = (alice_tag = "ShouldRefund")
              /\ herc20' = herc20 /\ revealed' = revealed]_vars
    /\ [][bob_pc = "refund_if_necessary" /\ bob_pc' /= bob_pc =>
              /\ bob_pc' = "done"
              /\ (herc20' /= herc20) = (bob_tag = "ShouldRefund")
              /\ hbit' = hbit]_vars
    /\ [][hbit' = "refunded" /\ hbit /= "refunded" => alice_tag = "ShouldRefund"]_vars
    /\ [][herc20' = "refunded" /\ herc20 /= "refunded" => bob_tag = "ShouldRefund"]_vars

\* C28 witness: Bob's deploy failed and he returned without a refund; Alice's watch then
\* failed and she refunded hbit
C28_Witness ==
    /\ bob_pc = "done" /\ bob_tag = "NoRefund" /\ herc20 = "none"
    /\ alice_pc = "done" /\ alice_tag = "ShouldRefund" /\ hbit = "refunded"

----------------------------------------------------------------------------
(* C25: the refund waits for the expiry, checked under SwapFairSpec *)

----------------------------------------------------------------------------
(* C22: the nonces of concurrent sending operations, checked under WalletSpec *)

\* The call of caller c has read its nonce and not yet handed its transaction to the node
InNonceSpan(c) == calls[c].pc \in {"gas_price", "gas_limit", "send_raw_transaction"}

\* C22 as claimed: the spans from get_transaction_count to send_raw_transaction of two
\* calls on one Wallet never interleave, and no two calls sign with the same nonce
C22_Original ==
    \A c \in Callers, d \in Callers :
        c /= d =>
            /\ ~(InNonceSpan(c) /\ InNonceSpan(d))
            /\ calls[c].pc = "send_raw_transaction" /\ calls[d].pc = "send_raw_transaction"
                   => calls[c].nonce /= calls[d].nonce

----------------------------------------------------------------------------
(* C23, C29, C30: the watcher's loop, checked under WatcherSpec; C24 under WatcherFairSpec *)

\* The transactions of the block the watcher holds
LatestTxs == Unwrap(latest_block).txs

\* An iteration of the loop that got a block is over
IterationOver == watcher_pc \in {"delay", "returned"} /\ IsSome(latest_block)

\* C23: a connector that answers None or an error leaves the watcher polling (at the
\* delay or at the next transaction) with nothing returned; the watcher returns only
\* Ok with a transaction of its block that matches the pattern
C23_FailuresNeverSurface ==
    /\ answered \in Failures =>
          watcher_pc \in {"delay", "receipt_by_hash"} /\ watcher_result = None
    /\ (watcher_pc = "returned") = IsSome(watcher_result)
    /\ IsSome(watcher_result) =>
          /\ Unwrap(watcher_result).kind = "Ok"
          /\ Unwrap(watcher_result).value.index \in DOMAIN LatestTxs
          /\ LatestTxs[Unwrap(watcher_result).value.index]
          /\ Unwrap(watcher_result).value.index \notin receipts_failed

\* C23 witness: a receipt was not delivered, the watcher went on and returned a match
C23_Witness ==
    /\ watcher_pc = "returned"
    /\ receipts_failed /= {}
    /\ IsSome(watcher_result)
    /\ Unwrap(watcher_result).kind = "Ok"

\* C24 as claimed: a matching transaction mined after the watcher started is
\* eventually returned
C24_Original == target_mined ~> IsSome(watcher_result)

\* C29: a block the pattern allows to skip sends the watcher back to the delay; no
\* receipt of the block is asked for and nothing is returned from it
C29_SkippedBlockUntouched ==
    /\ [](IsSome(latest_block) /\ Unwrap(latest_block).skip =>
              /\ receipts_fetched = {}
              /\ watcher_result = None
              /\ watcher_pc \in {"can_skip_block", "delay"})
    /\ [][/\ watcher_pc = "can_skip_block"
          /\ Unwrap(latest_block).skip
          /\ watcher_pc' /= watcher_pc
          => watcher_pc' = "delay" /\ receipts_fetched' = {} /\ watcher_result' = None]_vars

\* C29 witness: a block with transactions was skipped
C29_Witness ==
    /\ watcher_pc = "delay"
    /\ IsSome(latest_block)
    /\ Unwrap(latest_block).skip
    /\ Len(Unwrap(latest_block).txs) > 1

\* C30 as claimed: when a receipt of the block was not delivered, every later
\* transaction of the block has been fetched by the end of the iteration
C30_Original ==
    IterationOver =>
        \A i \in receipts_failed :
            \A j \in DOMAIN LatestTxs : j > i => j \in receipts_fetched

\* C30 as amended: a receipt that is not delivered makes the watcher go to the next
\* transaction of the block; an iteration asks for the receipts in order up to the
\* first transaction that matches, or to the end of the block when none does
C30_FailedReceiptSkipsOne ==
    /\ [][watcher_pc = "receipt_by_hash" /\ receipts_failed' /= receipts_failed =>
              /\ receipts_failed' = receipts_failed \cup {tx_index}
              /\ watcher_result' = None
              /\ IF tx_index < Len(LatestTxs)
                 THEN watcher_pc' = "receipt_by_hash" /\ tx_index' = tx_index + 1
                 ELSE watcher_pc' = "delay"]_vars
    /\ [](receipts_failed \subseteq receipts_fetched)
    /\ [](IterationOver /\ ~Unwrap(latest_block).skip =>
              receipts_fetched =
                  1..(IF IsSome(watcher_result)
                      THEN Unwrap(watcher_result).value.index
                      ELSE Len(LatestTxs)))

\* C30 witness: the first receipt was not delivered, the second transaction matched and
\* was returned, the third was never asked for
C30_Witness ==
    /\ watcher_pc = "returned"
    /\ Len(LatestTxs) = 3
    /\ receipts_failed = {1}
    /\ receipts_fetched = {1, 2}
    /\ Unwrap(watcher_result).value.index = 2

----------------------------------------------------------------------------
(* C31, C38: what the watcher yields, checked under WatcherSpec *)

\* The transaction the watcher returned
Yielded == Unwrap(watcher_result).value

\* C31: the transaction the watcher returns is one of the block that latest_block
\* delivered in this iteration, its receipt was delivered, and the pattern matches it;
\* the block the watcher takes up is the latest block of the chain at that moment
C31_YieldedFromLatestBlock ==
    /\ [](IsSome(watcher_result) =>
              /\ Unwrap(watcher_result).kind = "Ok"
              /\ IsSome(latest_block)
              /\ Yielded.number = Unwrap(latest_block).number
              /\ Yielded.index \in DOMAIN LatestTxs
              /\ Yielded.index \in receipts_fetched \ receipts_failed
              /\ LatestTxs[Yielded.index])
    /\ [][IsSome(latest_block') /\ latest_block' /= latest_block =>
              latest_block' = Some(block)]_vars

\* C31 witness: the last transaction of a block mined after the start was returned,
\* all receipts of the block having been delivered
C31_Witness ==
    /\ watcher_pc = "returned"
    /\ Yielded.number > 1
    /\ Yielded.index = 3
    /\ receipts_fetched = {1, 2, 3}
    /\ receipts_failed = {}

\* C38: once a transaction is returned the watcher takes no further step and what it
\* returned stays; it is the first transaction of the block that matches and whose
\* receipt was delivered, whatever the start time, and an iteration that returns nothing
\* has found no such transaction in its block
C38_AtMostOneItem ==
    /\ [][watcher_pc = "returned" =>
              UNCHANGED <<watcher_pc, watcher_result, latest_block, tx_index,
                          receipts_fetched, receipts_failed, answered>>]_vars
    /\ [][IsSome(watcher_result) => watcher_result' = watcher_result]_vars
    /\ [](IsSome(watcher_result) =>
              \A j \in 1..(Yielded.index - 1) : ~LatestTxs[j] \/ j \in receipts_failed)
    /\ [](IterationOver /\ ~IsSome(watcher_result) /\ ~Unwrap(latest_block).skip =>
              \A j \in DOMAIN LatestTxs : LatestTxs[j] => j \in receipts_failed)

\* C38 witness: the first of two matching transactions of a block older than the start
\* time was returned, and the chain has since got a block with another match
C38_Witness ==
    /\ watcher_pc = "returned"
    /\ Yielded.index = 1
    /\ Len(LatestTxs) > 1 /\ LatestTxs[2]
    /\ IsSome(start_time) /\ Unwrap(start_time) > Yielded.number
    /\ block.number > Yielded.number /\ HasMatch(block.txs)

----------------------------------------------------------------------------
(* C32, C33: the chain id check and the return of the sending operations, checked
   under WalletSpec *)

\* C32: a call whose chain_id is not the node's gets no further than assert_chain: it
\* has read no nonce, it returns an error, and a transaction is only ever sent by a call
\* whose chain_id is the node's
C32_WrongChainSendsNothing ==
    /\ [](\A c \in Callers :
              calls[c].op /= "none" /\ calls[c].chain_id /= NodeChainId =>
                  /\ calls[c].pc \in {"assert_chain", "returned"}
                  /\ calls[c].nonce = None
                  /\ calls[c].pc = "returned" =>
                         /\ Unwrap(calls[c].ret).kind = "Err"
                         /\ Unwrap(calls[c].ret).err \in {"Wrong chain_id", "assert_chain"})
    /\ [][sent' /= sent =>
              \E c \in Callers :
                  /\ calls[c].pc = "send_raw_transaction"
                  /\ calls[c].chain_id = NodeChainId
                  /\ sent' = Append(sent, [nonce |-> Unwrap(calls[c].nonce), by |-> c])]_vars

\* C32 witness: a call for another chain has failed on the comparison while a call for
\* the node's chain has sent its transaction
C32_Witness ==
    \E c, d \in Callers :
        /\ calls[c].chain_id /= NodeChainId
        /\ calls[c].pc = "returned"
        /\ calls[c].ret = Some(Err("Wrong chain_id"))
        /\ calls[d].pc = "sleep"
        /\ Len(sent) = 1 /\ sent[1].by = d

\* C33 as claimed: when a call has returned a hash, the transaction of that hash has
\* entered a block
C33_Original ==
    \A c \in Callers :
        calls[c].pc = "returned" /\ Unwrap(calls[c].ret).kind = "Ok" =>
            Unwrap(calls[c].ret).value <= mined

----------------------------------------------------------------------------
(* C34, C36: what a call leaves behind, checked under MakerSpec *)

\* The reserved pool of an order's side
PoolOf(order) ==
    IF order.position = "Buy" THEN "dai_reserved_funds" ELSE "btc_reserved_funds"

\* C34: after process_taken_order returned anything but GoForSwap the Maker is as it was
\* before the call; after GoForSwap every field but ongoing_takers and the reserved pool
\* of the order's side is as it was
C34_OnlyGoForSwapChanges ==
    last.op = "process_taken_order" =>
        /\ ~panicked
        /\ IF last.ret /= "GoForSwap"
           THEN maker = last.pre
           ELSE \A f \in DOMAIN maker \ {"ongoing_takers", PoolOf(last.arg)} :
                    maker[f] = last.pre[f]

\* C34 witness: an order was turned down for insufficient funds while another taker's
\* accepted order holds reserved dai
C34_Witness ==
    /\ last.op = "process_taken_order"
    /\ last.ret = "InsufficientFunds"
    /\ last.arg.position = "Buy"
    /\ maker.dai_reserved_funds > 0
    /\ maker.ongoing_takers /= {}

\* C36: after update_rate, update_bitcoin_balance or update_dai_balance returned an
\* error the new value is the stored one, and the same call with the same value would
\* return None and leave the Maker as it is
C36_FailedUpdateStaysStored ==
    /\ last.op = "update_rate" /\ last.ret.kind = "Err" =>
           /\ maker.mid_market_rate = Some(last.arg)
           /\ update_rate(maker, last.arg) = [m |-> maker, ret |-> [kind |-> "None"]]
    /\ last.op = "update_bitcoin_balance" /\ last.ret.kind = "Err" =>
           /\ maker.btc_balance = Some(last.arg)
           /\ update_bitcoin_balance(maker, last.arg) = [m |-> maker, ret |-> [kind |-> "None"]]
    /\ last.op = "update_dai_balance" /\ last.ret.kind = "Err" =>
           /\ maker.dai_balance = Some(last.arg)
           /\ update_dai_balance(maker, last.arg) = [m |-> maker, ret |-> [kind |-> "None"]]

\* C36 witness: update_dai_balance failed with a balance that differs from the one
\* stored before the call
C36_Witness ==
    /\ last.op = "update_dai_balance"
    /\ last.ret.kind = "Err"
    /\ IsSome(last.pre.dai_balance)
    /\ last.pre.dai_balance /= Some(last.arg)

----------------------------------------------------------------------------
(* C35: the reserved funds and the live swaps, checked under MakerOwnSwapsSpec *)

\* What process_taken_order reserved for an accepted order, by pool
ReservedBy(order, kind, btc_fee) ==
    IF FreeOf(order).kind /= kind THEN 0
    ELSE IF kind = "Btc" THEN order.base + btc_fee
    ELSE order.quote

RECURSIVE ReservedSum(_, _, _)
ReservedSum(orders, kind, btc_fee) ==
    IF orders = {} THEN 0
    ELSE LET order == CHOOSE o \in orders : TRUE
         IN  ReservedBy(order, kind, btc_fee) + ReservedSum(orders \ {order}, kind, btc_fee)

\* C35: when every finished swap frees its own order's amount, the reserved bitcoin is
\* the sum of base + btc_fee over the live Sell swaps and the reserved dai is the sum of
\* quote over the live Buy swaps, and no subtraction underflows
C35_ReservedIsSumOfLive ==
    /\ ~panicked
    /\ maker.btc_reserved_funds = ReservedSum(live, "Btc", maker.btc_fee)
    /\ maker.dai_reserved_funds = ReservedSum(live, "Dai", maker.btc_fee)

\* C35 witness: the swap accepted second is live, the one accepted first has finished,
\* and its taker's next swap, of the other side, is live too
C35_Witness ==
    \E sell, buy \in live :
        /\ sell.position = "Sell" /\ buy.position = "Buy"
        /\ finished = {sell.taker}
        /\ maker.btc_reserved_funds = sell.base + maker.btc_fee
        /\ maker.btc_fee > 0
        /\ maker.dai_reserved_funds = buy.quote

----------------------------------------------------------------------------
(* C37: an incorrectly funded hbit HTLC, checked under SwapFundingSpec *)

\* C37: Bob leaves watch_for_funded for execute_deploy only when the hbit HTLC was
\* funded correctly; while it is funded incorrectly Bob gets no further than
\* watch_for_funded, his block ends with NoRefund, and herc20 is never deployed
C37_IncorrectFundingStopsBob ==
    /\ [][bob_pc = "watch_for_funded" /\ bob_pc' = "execute_deploy" =>
              hbit \in {"funded", "redeemed", "refunded"}]_vars
    /\ [](HbitWasFundedIncorrectly =>
              /\ herc20 = "none"
              /\ bob_pc \in {"watch_for_funded", "refund_if_necessary", "done"}
              /\ bob_pc /= "watch_for_funded" => bob_tag = "NoRefund")
    /\ [][HbitWasFundedIncorrectly => hbit' = hbit]_vars

\* C37 witness: Bob's protocol has returned with NoRefund on an incorrectly funded hbit
\* HTLC, while Alice waits for the deployment of herc20
C37_Witness ==
    /\ HbitWasFundedIncorrectly
    /\ bob_pc = "done"
    /\ bob_tag = "NoRefund"
    /\ alice_pc = "watch_for_deployed"
    /\ herc20 = "none"

====
